---------------------------- MODULE Spec2Model ----------------------------
(***************************************************************************)
(* StudioCast podcast portal (src/App.ts): the persistent store wrapper,   *)
(* the per-series episode allocator, the progress calculator, the project  *)
(* page handlers and the user/session handlers, as state machines.         *)
(*                                                                         *)
(* Encoding conventions                                                    *)
(*   - a localStorage slot is <<>> (key absent) or <<v>> (key holds v);    *)
(*   - an optional value (draft, session.userId) is <<>> or <<v>>;         *)
(*   - a JSON object used as a map (the Sequence Map) is a function whose  *)
(*     DOMAIN is the set of keys present;                                  *)
(*   - a thrown exception is the field "thrown" of an operation's result.  *)
(***************************************************************************)
EXTENDS Integers, Sequences, FiniteSets, TLC

VARIABLES
    store,       \* localStorage: LS_KEYS name -> slot
    \* ---- allocator, one tab
    issued,      \* series -> numbers returned by the tab's calls, in call order
    everFailed,  \* some localStorage.setItem has thrown so far
    last,        \* the last call of nextEpisodeNumber: what it saw and did
    \* ---- allocator, two tabs on one store
    tpc,         \* tab -> "idle", or "loaded" between the load and the save of a call
    tmap,        \* tab -> the map the call in progress (or the last call) loaded
    tser,        \* tab -> the series of that call
    tret,        \* tab -> the number the tab's last call returned (0: none yet)
    mem,         \* tab -> the React state of the portal running in that tab
    \* ---- ProjectsPage, one tab
    projects,    \* the in-memory project collection (React state of StudioCastPortal)
    draft,       \* the project form's draft: <<>> or <<project>>
    nextId,      \* the next identifier uid() hands out
    clock,       \* what now() returns
    born,        \* id -> <<createdAt>> the project had when it was first saved
    \* ---- StudioCastPortal / TeamPage, one tab
    users,       \* the in-memory user collection (React state)
    session,     \* useMemo(getSession, []): the userId read at mount, <<>> or <<id>>
    phase,       \* "unloaded" before the first load, "ready", or "reloading"
                 \* after window.location.reload()
    nextUid,     \* the next identifier uid("usr") hands out
    lastLogin,   \* <<>> or <<what the last handleLogin was given and found>>
    \* ---- progress calculator
    cIn,         \* the checklist under the user's hands
    cOf,         \* <<c>>: the checklist calcProgress was last applied to
    cOut,        \* the value calcProgress returned for it
    \* ---- ProjectsPage controls
    ctl,         \* query, statusFilter, priorityFilter, sortKey
    \* ---- Shell: the page shown
    view,        \* the tab rendered last, the collection it was handed and the list it shows
    \* ---- GuestsPage
    guests,      \* the in-memory guest collection (React state of StudioCastPortal)
    g,           \* the guest form's draft: <<>> or <<guest>>
    nextGid,     \* the next identifier uid("gst") hands out
    \* ---- dialogs
    prompt       \* <<>> or <<the text of the alert() the last handler showed>>

vars == <<store, issued, everFailed, last, tpc, tmap, tser, tret, mem,
          projects, draft, nextId, clock, born,
          users, session, phase, nextUid, lastLogin, cIn, cOf, cOut, ctl,
          view, guests, g, nextGid, prompt>>

allocVars == <<issued, everFailed, last>>
tabVars   == <<tpc, tmap, tser, tret, mem>>
projVars  == <<projects, draft, nextId, clock, born>>
userVars  == <<users, session, phase, nextUid, lastLogin>>
calcVars  == <<cIn, cOf, cOut>>
viewVars  == <<ctl>>
guestVars == <<guests, g, nextGid>>
pageVars  == <<view, guestVars, prompt>>

---------------------------------------------------------------------------
(* Bounds of the model *)

MaxCalls == 3      \* calls of nextEpisodeNumber per series that are explored
MaxProgIds == 1    \* projects created while checklists and bulk actions are explored
MaxIds == 2        \* projects created while series and episode numbers are explored
MaxTimeIds == 1    \* projects created while time stamps are explored
MaxClock == 2      \* the last instant now() returns
MaxUids == 3       \* user identifiers handed out, the seeded admin's included
MaxStats == 4      \* projects in the collection while the dashboard counts are explored
MaxUpcoming == 6   \* projects in the collection while the upcoming list is explored
MaxFilter == 3     \* projects in the collection while the filters are explored
MaxSort == 3       \* projects in the collection while the sort keys are explored
MaxBulkIds == 2    \* projects created while bulk actions on several projects are explored
MaxBulkClock == 1  \* the last instant now() returns while bulk actions are explored
MaxFormIds == 2    \* projects created while the form's series changes are explored
MaxStudioUids == 2 \* user identifiers handed out while the three collections are explored
MaxStudioIds == 2  \* projects created while the three collections are explored
MaxStudioGids == 2 \* guests created while the three collections are explored
MaxPortalIds == 2  \* projects created by the two tabs together
MaxPortalUids == 2 \* user identifiers handed out in the two tabs together
MaxPortalGids == 1 \* guests created by the two tabs together
MaxViews == 3      \* projects in the collection while the view computations are explored

---------------------------------------------------------------------------
(* Constants & types, src/App.ts:18-82 *)

STATUSES   == <<"draft", "active", "completed", "archived">>
PRIORITIES == <<"high", "medium", "low">>

ChecklistKeys == {"research", "questions", "equipment", "thumbnails"}
Checklist     == [ChecklistKeys -> BOOLEAN]

LS_KEYS == {"users", "projects", "guests", "session", "seqMap", "settings"}

Series == {"Main", "Guest Series"}

Some(v) == <<v>>
None    == <<>>

EmptyStore == [k \in LS_KEYS |-> None]

---------------------------------------------------------------------------
(* Utilities: load / save *)

\* localStorage.setItem(key, JSON.stringify(value)); it throws when the
\* browser refuses the write (quota, private mode): ok = FALSE.
setItem(st, key, value, ok) ==
    [store  |-> IF ok THEN [st EXCEPT ![key] = Some(value)] ELSE st,
     thrown |-> ~ok]

\* A save that lets the exception of setItem escape.
save_NoCatch(st, key, value, ok) == setItem(st, key, value, ok)

\* try { localStorage.setItem(...) } catch {}
save(st, key, value, ok) ==
    [store |-> setItem(st, key, value, ok).store, thrown |-> FALSE]

\* raw ? JSON.parse(raw) : fallback
load(st, key, fallback) ==
    IF st[key] = None THEN fallback ELSE st[key][1]

---------------------------------------------------------------------------
(* calcProgress *)

\* Math.round(n / d) for n >= 0, d > 0: the nearest integer, halves up.
MathRound(n, d) == (2 * n + d) \div (2 * d)

\* A calcProgress that truncates instead of rounding and scales by 99.
calcProgress_Trunc(c) ==
    LET done == Len(SelectSeq(<<c.research, c.questions, c.equipment, c.thumbnails>>,
                              LAMBDA b : b))
    IN  (done * 99) \div 4

calcProgress(c) ==
    LET done == Len(SelectSeq(<<c.research, c.questions, c.equipment, c.thumbnails>>,
                              LAMBDA b : b))
    IN  MathRound(done * 100, 4)

---------------------------------------------------------------------------
(* Per-series episode sequencing *)

EmptyMap == [s \in {} |-> 0]

\* map[series] || 0, for a series name the map does not inherit
GetOr0(map, series) ==
    IF series \in DOMAIN map /\ map[series] # 0 THEN map[series] ELSE 0

\* A series name that every object inherits as an accessor: map["__proto__"]
\* reads the prototype of the map, whether or not the map was parsed from
\* JSON, and map["__proto__"] = v calls the inherited setter.
Proto == "__proto__"

\* (map[series] || 0) + 1.  For "__proto__" the value read is the object
\* Object.prototype, which is truthy, and an object plus 1 is the
\* concatenation of its string form and "1".
Current(map, series) ==
    IF series = Proto THEN "[object Object]1" ELSE GetOr0(map, series) + 1

\* map[series] = current.  The setter of "__proto__" ignores a value that
\* is neither an object nor null, so the map gets no entry.
Put(map, series, current) ==
    IF series = Proto THEN map
    ELSE [k \in DOMAIN map \cup {series} |-> IF k = series THEN current ELSE map[k]]

\* An allocator that bumps the counter of every series present in the map.
nextEpisodeNumber_BumpAll(st, series, ok) ==
    LET map     == load(st, "seqMap", EmptyMap)
        current == GetOr0(map, series) + 1
        map2    == [k \in DOMAIN map \cup {series} |->
                        IF k = series THEN current ELSE map[k] + 1]
        w       == save(st, "seqMap", map2, ok)
    IN  [store |-> w.store, thrown |-> w.thrown, ret |-> current]

\* An allocator that returns the stored number without advancing it.
nextEpisodeNumber_NoIncr(st, series, ok) ==
    LET map     == load(st, "seqMap", EmptyMap)
        current == IF GetOr0(map, series) = 0 THEN 1 ELSE GetOr0(map, series)
        w       == save(st, "seqMap", Put(map, series, current), ok)
    IN  [store |-> w.store, thrown |-> w.thrown, ret |-> current]

\* The result of a call: the store after it, whether an exception escaped
\* it, and the value returned (meaningful when nothing was thrown).
nextEpisodeNumber(st, series, ok) ==
    LET map     == load(st, "seqMap", EmptyMap)
        current == Current(map, series)
        map2    == Put(map, series, current)
        w       == save(st, "seqMap", map2, ok)
    IN  [store |-> w.store, thrown |-> w.thrown, ret |-> current]

\* A runSmokeTests that forgets to write the backup back.
runSmokeTests_NoRestore(st, oks) ==
    LET s0 == save(st, "seqMap", EmptyMap, oks[1]).store
        r1 == nextEpisodeNumber(s0, "Main", oks[2])
        r2 == nextEpisodeNumber(r1.store, "Main", oks[3])
        r3 == nextEpisodeNumber(r2.store, "Guest Series", oks[4])
    IN  [store |-> r3.store, a1 |-> r1.ret, a2 |-> r2.ret, b1 |-> r3.ret]

\* The per-series part of runSmokeTests, which runs on every render of
\* StudioCastPortal: back the map up, empty it, call the allocator three
\* times, write the backup back.  oks[i] tells whether the i-th write lands.
runSmokeTests(st, oks) ==
    LET backup == load(st, "seqMap", EmptyMap)
        s0 == save(st, "seqMap", EmptyMap, oks[1]).store
        r1 == nextEpisodeNumber(s0, "Main", oks[2])
        r2 == nextEpisodeNumber(r1.store, "Main", oks[3])
        r3 == nextEpisodeNumber(r2.store, "Guest Series", oks[4])
        s4 == save(r3.store, "seqMap", backup, oks[5]).store
    IN  [store |-> s4, a1 |-> r1.ret, a2 |-> r2.ret, b1 |-> r3.ret]

---------------------------------------------------------------------------
(* The allocator in one tab.  Handlers run to completion, so a call is one *)
(* step; each setItem may throw.                                           *)

NoCall == [series |-> "", ret |-> 0, ok |-> TRUE, thrown |-> FALSE]

AllocIdle ==
    /\ issued = [s \in Series |-> <<>>]
    /\ everFailed = FALSE
    /\ last = NoCall

CalcIdle ==
    /\ cIn = [k \in ChecklistKeys |-> FALSE]
    /\ cOf = None
    /\ cOut = 0

Tabs == {"A", "B"}

\* a tab in which the page is not loaded (or is loading again)
Unmounted ==
    [up |-> FALSE, users |-> <<>>, projects |-> <<>>, guests |-> <<>>,
     session |-> None, draft |-> None, g |-> None]

TabsIdle ==
    /\ tpc = [t \in Tabs |-> "idle"]
    /\ tmap = [t \in Tabs |-> EmptyMap]
    /\ tser = [t \in Tabs |-> "Main"]
    /\ tret = [t \in Tabs |-> 0]
    /\ mem = [t \in Tabs |-> Unmounted]

ProjIdle ==
    /\ projects = <<>>
    /\ draft = None
    /\ nextId = 1
    /\ clock = 0
    /\ born = [i \in {} |-> 0]

\* useState(""), useState("all"), useState("all"), useState("updatedAt")
ViewIdle ==
    ctl = [query |-> <<>>, statusFilter |-> "all", priorityFilter |-> "all",
           sortKey |-> "updatedAt"]

\* Shell opens on the dashboard of an empty collection; useState(null) of
\* GuestsPage; no alert has been shown.
PageIdle ==
    /\ view = [tab |-> "dashboard", given |-> <<>>, shown |-> <<>>]
    /\ guests = <<>>
    /\ g = None
    /\ nextGid = 1
    /\ prompt = None

UsersIdle ==
    /\ users = <<>>
    /\ session = None
    /\ phase = "ready"
    /\ nextUid = 1
    /\ lastLogin = None

AllocInit ==
    /\ store = EmptyStore
    /\ AllocIdle
    /\ TabsIdle
    /\ ProjIdle
    /\ UsersIdle
    /\ CalcIdle
    /\ ViewIdle
    /\ PageIdle

\* A handler (openNew, onSeriesChange) calls nextEpisodeNumber(series); the
\* draft it sets is local state of ProjectsPage, so StudioCastPortal does
\* not render and runSmokeTests does not run.
AllocCall ==
    \E s \in Series, ok \in BOOLEAN :
        LET r == nextEpisodeNumber(store, s, ok) IN
        /\ Len(issued[s]) < MaxCalls
        /\ store' = r.store
        /\ issued' = [issued EXCEPT ![s] = Append(@, r.ret)]
        /\ everFailed' = (everFailed \/ ~ok)
        /\ last' = [series |-> s, ret |-> r.ret, ok |-> ok, thrown |-> r.thrown]
        /\ UNCHANGED <<tabVars, projVars, userVars, calcVars, viewVars, pageVars>>

AllocNext == AllocCall

SpecAlloc == AllocInit /\ [][AllocNext]_vars

TrueCount(c) == Cardinality({k \in ChecklistKeys : c[k]})

\* 1, 2, ..., n
UpTo(n) == [i \in 1..n |-> i]

\* The entry of series s in the persisted Sequence Map: None when absent.
Entry(st, s) ==
    LET map == load(st, "seqMap", EmptyMap)
    IN  IF s \in DOMAIN map THEN Some(map[s]) ELSE None

C5_WriteFailureSwallowed ==
    [][(issued' # issued /\ ~last'.ok) =>
          /\ ~last'.thrown
          /\ last'.ret = GetOr0(load(store, "seqMap", EmptyMap), last'.series) + 1
          /\ store' = store]_vars

\* A write failed after one had landed: the call still returned 2.
C5_Witness ==
    /\ ~last.ok
    /\ ~last.thrown
    /\ last.ret = 2
    /\ Entry(store, last.series) = Some(1)

\* C26: nextEpisodeNumber keeps no counter in memory.  Every call returns
\* (persisted map[series] or 0) + 1 as the store holds it when the call is
\* made, so a call that follows a call of the same series whose write
\* failed returns the same number again.
C26_NoCounterInMemory ==
    [][issued' # issued =>
          /\ last'.ret = GetOr0(load(store, "seqMap", EmptyMap), last'.series) + 1
          /\ (last # NoCall /\ ~last.ok /\ last'.series = last.series)
                 => last'.ret = last.ret]_vars

\* "Main" was issued 1, then 2 with a write that failed, then 2 again: the
\* numbers returned to the tab are not strictly increasing.
C26_Witness ==
    /\ issued["Main"] = <<1, 2, 2>>
    /\ issued["Guest Series"] = <<>>
    /\ Entry(store, "Main") = Some(2)
    /\ last.ok

---------------------------------------------------------------------------
(* The allocator in two tabs sharing one localStorage.  Each tab runs its  *)
(* own handlers to completion, but the tabs run side by side: between the  *)
(* load (line 107) and the save (line 110) of one tab's call the other tab *)
(* may load and save.  Writes land.                                        *)

TabsInit ==
    /\ store = EmptyStore
    /\ AllocIdle
    /\ TabsIdle
    /\ ProjIdle
    /\ UsersIdle
    /\ CalcIdle
    /\ ViewIdle
    /\ PageIdle

\* Line 107 of a call nextEpisodeNumber(s) in tab t.
TabLoad ==
    \E t \in Tabs, s \in Series :
        /\ tpc[t] = "idle"
        /\ GetOr0(load(store, "seqMap", EmptyMap), s) < MaxCalls
        /\ tpc' = [tpc EXCEPT ![t] = "loaded"]
        /\ tmap' = [tmap EXCEPT ![t] = load(store, "seqMap", EmptyMap)]
        /\ tser' = [tser EXCEPT ![t] = s]
        /\ UNCHANGED <<store, tret, mem, allocVars, projVars, userVars, calcVars, viewVars, pageVars>>

\* Lines 108-111 of the call in tab t: the number is computed from the map
\* the tab loaded, and that map, updated, overwrites the stored one.
TabSave ==
    \E t \in Tabs :
        LET r == nextEpisodeNumber([store EXCEPT !["seqMap"] = Some(tmap[t])],
                                   tser[t], TRUE) IN
        /\ tpc[t] = "loaded"
        /\ store' = [store EXCEPT !["seqMap"] = r.store["seqMap"]]
        /\ tret' = [tret EXCEPT ![t] = r.ret]
        /\ tpc' = [tpc EXCEPT ![t] = "idle"]
        /\ UNCHANGED <<tmap, tser, mem, allocVars, projVars, userVars, calcVars, viewVars, pageVars>>

TabsNext == TabLoad \/ TabSave

SpecTabs == TabsInit /\ [][TabsNext]_vars

\* C3: the allocator is not race-free across tabs.  Whenever two tabs have
\* completed a call for the same series after reading the same last-issued
\* number, both calls returned that number plus one, the same number twice;
\* such a state is reachable (C3_Witness).
C3_SameReadSameNumber ==
    \A t1, t2 \in Tabs :
        ( /\ t1 # t2
          /\ tpc[t1] = "idle" /\ tpc[t2] = "idle"
          /\ tret[t1] # 0 /\ tret[t2] # 0
          /\ tser[t1] = tser[t2]
          /\ GetOr0(tmap[t1], tser[t1]) = GetOr0(tmap[t2], tser[t2]) )
        => /\ tret[t1] = tret[t2]
           /\ tret[t1] = GetOr0(tmap[t1], tser[t1]) + 1

\* Both tabs were handed episode 2 of "Main", and the stored counter went
\* from 1 to 2 only.
C3_Witness ==
    /\ tpc["A"] = "idle" /\ tpc["B"] = "idle"
    /\ tser["A"] = "Main" /\ tser["B"] = "Main"
    /\ tret["A"] = 2 /\ tret["B"] = 2
    /\ Entry(store, "Main") = Some(2)

---------------------------------------------------------------------------
(* ProjectsPage: the handlers as functions of what they read.              *)
(* A project carries the fields the handlers below read or write; title,   *)
(* description, notes, priority, tags, dates, duration and guest are       *)
(* written only by ProjectForm.set and read by none of them.               *)

AllOk == [i \in 1..5 |-> TRUE]

\* The series names in the order of Array.prototype.sort (UTF-16 code units).
SeriesSorted == <<"Guest Series", "Main", Proto>>

\* Array.from(new Set(projects.map(p => p.series))).sort()
allSeries(projs) ==
    SelectSeq(SeriesSorted, LAMBDA s : \E i \in 1..Len(projs) : projs[i].series = s)

\* allSeries[0] || "Main"
defaultSeries(projs) ==
    IF allSeries(projs) = <<>> THEN "Main" ELSE allSeries(projs)[1]

\* openNew: the allocator is called, then the draft is set.  id is uid("prj"),
\* t is now(), ok tells whether the allocator's write lands.
openNew(st, projs, id, t, ok) ==
    LET r == nextEpisodeNumber(st, defaultSeries(projs), ok)
    IN  [store |-> r.store,
         draft |-> Some([id |-> id, series |-> defaultSeries(projs),
                         episodeNumber |-> r.ret, status |-> "draft",
                         guestId |-> None,
                         checklist |-> [k \in ChecklistKeys |-> FALSE],
                         progressPct |-> 0, createdAt |-> t, updatedAt |-> t])]

\* openEdit: setDraft({...p})
openEdit(p) == Some(p)

\* onSeriesChange of the project form, d being the draft.
onSeriesChange(st, d, s, ok) ==
    LET r == nextEpisodeNumber(st, s, ok)
    IN  [store |-> r.store,
         draft |-> Some([d EXCEPT !.series = s, !.episodeNumber = r.ret])]

\* ProjectForm.setChecklist({[k]: checked})
setChecklist(d, k, checked) ==
    Some([d EXCEPT !.checklist = [d.checklist EXCEPT ![k] = checked]])

\* A save that keeps the draft's stored progressPct.
saveDraft_NoRecalc(projs, d, t) ==
    LET copy == [d EXCEPT !.updatedAt = t]
    IN  IF \E i \in 1..Len(projs) : projs[i].id = copy.id
        THEN [i \in 1..Len(projs) |-> IF projs[i].id = copy.id THEN copy ELSE projs[i]]
        ELSE <<copy>> \o projs

\* A save that stamps createdAt as well as updatedAt.
saveDraft_Restamp(projs, d, t) ==
    LET copy == [d EXCEPT !.progressPct = calcProgress(d.checklist),
                          !.createdAt = t, !.updatedAt = t]
    IN  IF \E i \in 1..Len(projs) : projs[i].id = copy.id
        THEN [i \in 1..Len(projs) |-> IF projs[i].id = copy.id THEN copy ELSE projs[i]]
        ELSE <<copy>> \o projs

\* saveDraft, d being the draft: the collection setProjects produces.
saveDraft(projs, d, t) ==
    LET copy == [d EXCEPT !.progressPct = calcProgress(d.checklist),
                          !.updatedAt = t]
    IN  IF \E i \in 1..Len(projs) : projs[i].id = copy.id
        THEN [i \in 1..Len(projs) |-> IF projs[i].id = copy.id THEN copy ELSE projs[i]]
        ELSE <<copy>> \o projs

\* remove(id); confirmed is the answer to confirm("Delete this project?").
remove(projs, id, confirmed) ==
    IF confirmed THEN SelectSeq(projs, LAMBDA p : p.id # id) ELSE projs

\* A bulk action that refreshes updatedAt on every project, selected or not.
bulk_StampAll(projs, action, ids, confirmed, t) ==
    IF ids = {} THEN projs
    ELSE IF action = "delete" /\ ~confirmed THEN projs
    ELSE LET mapped == [i \in 1..Len(projs) |->
                 IF action = "delete" THEN projs[i]
                 ELSE IF projs[i].id \notin ids THEN [projs[i] EXCEPT !.updatedAt = t]
                 ELSE IF action = "complete"
                      THEN [projs[i] EXCEPT !.status = "completed", !.updatedAt = t]
                 ELSE [projs[i] EXCEPT !.status = "archived", !.updatedAt = t]]
         IN  SelectSeq(mapped, LAMBDA p : action # "delete" \/ p.id \notin ids)

\* bulk(action); ids are the checked boxes, confirmed the answer to the
\* delete confirmation, t is now().
bulk(projs, action, ids, confirmed, t) ==
    IF ids = {} THEN projs
    ELSE IF action = "delete" /\ ~confirmed THEN projs
    ELSE LET mapped == [i \in 1..Len(projs) |->
                 IF projs[i].id \notin ids THEN projs[i]
                 ELSE IF action = "complete"
                      THEN [projs[i] EXCEPT !.status = "completed", !.updatedAt = t]
                 ELSE IF action = "archive"
                      THEN [projs[i] EXCEPT !.status = "archived", !.updatedAt = t]
                 ELSE projs[i]]
         IN  SelectSeq(mapped, LAMBDA p : action # "delete" \/ p.id \notin ids)

\* StudioCastPortal renders after setProjects: the body runs runSmokeTests,
\* then the effect on [projects] mirrors the collection.  Writes land.
renderProjects_Merge(st, projs) ==
    save(runSmokeTests(st, AllOk).store, "projects",
         projs \o SelectSeq(load(st, "projects", <<>>),
                            LAMBDA p : \A i \in 1..Len(projs) : projs[i].id # p.id),
         TRUE).store

renderProjects(st, projs) ==
    save(runSmokeTests(st, AllOk).store, "projects", projs, TRUE).store

ProjInit ==
    /\ store = EmptyStore
    /\ AllocIdle
    /\ TabsIdle
    /\ ProjIdle
    /\ UsersIdle
    /\ CalcIdle
    /\ ViewIdle
    /\ PageIdle

OpenNew ==
    LET r == openNew(store, projects, nextId, clock, TRUE) IN
    /\ store' = r.store
    /\ draft' = r.draft
    /\ nextId' = nextId + 1
    /\ issued' = [issued EXCEPT ![r.draft[1].series] = Append(@, r.draft[1].episodeNumber)]
    /\ UNCHANGED <<projects, clock, born, everFailed, last, tabVars, userVars, calcVars, viewVars, pageVars>>

OpenEdit ==
    \E i \in 1..Len(projects) :
        /\ draft' = openEdit(projects[i])
        /\ UNCHANGED <<store, projects, nextId, clock, born, allocVars, tabVars, userVars, calcVars, viewVars, pageVars>>

OnSeriesChange ==
    \E s \in Series :
        /\ draft # None
        /\ LET r == onSeriesChange(store, draft[1], s, TRUE) IN
            /\ store' = r.store
            /\ draft' = r.draft
            /\ issued' = [issued EXCEPT ![s] = Append(@, r.draft[1].episodeNumber)]
        /\ UNCHANGED <<projects, nextId, clock, born, everFailed, last, tabVars, userVars, calcVars, viewVars, pageVars>>

\* A checkbox of the checklist is clicked: checked is the negated value.
SetChecklist ==
    \E k \in ChecklistKeys :
        /\ draft # None
        /\ draft' = setChecklist(draft[1], k, ~draft[1].checklist[k])
        /\ UNCHANGED <<store, projects, nextId, clock, born, allocVars, tabVars, userVars, calcVars, viewVars, pageVars>>

SaveDraft ==
    /\ draft # None
    /\ projects' = saveDraft(projects, draft[1], clock)
    /\ draft' = None
    /\ store' = renderProjects(store, projects')
    /\ born' = [i \in DOMAIN born \cup {draft[1].id} |->
                  IF i \in DOMAIN born THEN born[i] ELSE draft[1].createdAt]
    /\ UNCHANGED <<nextId, clock, allocVars, tabVars, userVars, calcVars, viewVars, pageVars>>

\* Modal onClose
CloseForm ==
    /\ draft # None
    /\ draft' = None
    /\ UNCHANGED <<store, projects, nextId, clock, born, allocVars, tabVars, userVars, calcVars, viewVars, pageVars>>

\* "Delete" on the card of the i-th project
RemoveWith(i, confirmed) ==
        /\ projects' = remove(projects, projects[i].id, confirmed)
        /\ store' = IF projects' = projects THEN store
                    ELSE renderProjects(store, projects')
        /\ UNCHANGED <<draft, nextId, clock, born, allocVars, tabVars, userVars, calcVars, viewVars, pageVars>>

Remove ==
    \E i \in 1..Len(projects), confirmed \in BOOLEAN : RemoveWith(i, confirmed)

Bulk(actions) ==
    \E action \in actions,
       ids \in SUBSET {projects[i].id : i \in 1..Len(projects)} :
      \* confirm() is asked only for a delete with a selection
      \E confirmed \in IF action = "delete" /\ ids # {} THEN BOOLEAN ELSE {TRUE} :
        /\ projects' = bulk(projects, action, ids, confirmed, clock)
        /\ store' = IF ids = {} \/ (action = "delete" /\ ~confirmed) THEN store
                    ELSE renderProjects(store, projects')
        /\ UNCHANGED <<draft, nextId, clock, born, allocVars, tabVars, userVars, calcVars, viewVars, pageVars>>

\* Time passes.
Tick ==
    /\ clock' = clock + 1
    /\ UNCHANGED <<store, projects, draft, nextId, born, allocVars, tabVars, userVars, calcVars, viewVars, pageVars>>

---------------------------------------------------------------------------
(* Checklists, saves and bulk actions. *)

ProgressNext ==
    \/ (nextId <= MaxProgIds /\ OpenNew)
    \/ OpenEdit
    \/ SetChecklist
    \/ SaveDraft
    \/ Remove
    \/ Bulk({"complete", "archive", "delete"})

SpecProgress == ProjInit /\ [][ProgressNext]_vars

\* C7: in every state reached from an empty collection by opening, ticking,
\* saving, deleting and bulk actions, each project of the collection has
\* progressPct = round(100 * trueCount(checklist) / 4).
C7_ProgressMatchesChecklist ==
    \A i \in 1..Len(projects) :
        4 * projects[i].progressPct = 100 * TrueCount(projects[i].checklist)

\* An edited project was saved again with two items ticked, after a bulk
\* action.
C7_Witness ==
    \E i \in 1..Len(projects) :
        /\ projects[i].status = "completed"
        /\ TrueCount(projects[i].checklist) = 2
        /\ projects[i].progressPct = 50
        /\ draft = None

---------------------------------------------------------------------------
(* Series, episode numbers and deletions.  Writes land. *)

\* Every counter of the persisted map is within the explored range.
CountersInBound(st) ==
    LET map == load(st, "seqMap", EmptyMap)
    IN  \A k \in DOMAIN map : map[k] <= MaxCalls

SeriesNext ==
    \/ (nextId <= MaxIds /\ OpenNew /\ CountersInBound(store'))
    \/ OpenEdit
    \/ (OnSeriesChange /\ CountersInBound(store'))
    \/ SaveDraft
    \/ CloseForm
    \/ Remove
    \/ Bulk({"delete"})

SpecSeries == ProjInit /\ [][SeriesNext]_vars

---------------------------------------------------------------------------
(* The project form with the allocator's writes landing or not, and with   *)
(* series names typed into "New series...".  The smoke tests' own writes   *)
(* land.                                                                   *)

\* The series a draft can be given: those of the select, and what the user
\* types into the "New series..." box.
TypedSeries == Series \cup {Proto}

\* "New Project"
FormOpenNew ==
    \E ok \in BOOLEAN :
        LET r == openNew(store, projects, nextId, clock, ok) IN
        /\ store' = r.store
        /\ draft' = r.draft
        /\ nextId' = nextId + 1
        /\ everFailed' = (everFailed \/ ~ok)
        /\ last' = [series |-> r.draft[1].series, ret |-> r.draft[1].episodeNumber,
                    ok |-> ok, thrown |-> FALSE]
        /\ UNCHANGED <<projects, clock, born, issued, tabVars, userVars, calcVars,
                       viewVars, pageVars>>

\* The series select of the form, or Enter in "New series..."
FormSeriesChange ==
    \E s \in TypedSeries, ok \in BOOLEAN :
        /\ draft # None
        /\ LET r == onSeriesChange(store, draft[1], s, ok) IN
            /\ store' = r.store
            /\ draft' = r.draft
            /\ last' = [series |-> s, ret |-> r.draft[1].episodeNumber,
                        ok |-> ok, thrown |-> FALSE]
        /\ everFailed' = (everFailed \/ ~ok)
        /\ UNCHANGED <<projects, nextId, clock, born, issued, tabVars, userVars, calcVars,
                       viewVars, pageVars>>

FormNext ==
    \/ (nextId <= MaxFormIds /\ FormOpenNew /\ CountersInBound(store'))
    \/ OpenEdit
    \/ (FormSeriesChange /\ CountersInBound(store'))
    \/ SaveDraft
    \/ CloseForm

SpecForm == ProjInit /\ [][FormNext]_vars

\* The step called the allocator: "last" tells another call than before.
\* (Two successive calls for one series whose writes land differ in the
\* number returned.)
Called ==
    \/ last'.series # last.series
    \/ last'.ok # last.ok
    \/ (last'.series # Proto /\ last'.ret # last.ret)

\* The counter of series s stands one higher in st2 than in st.
AdvancedByOne(st, st2, s) ==
    Entry(st2, s) = Some(GetOr0(load(st, "seqMap", EmptyMap), s) + 1)

\* The form was closed, by a save or without one, and no counter moved.
ClosingKeepsCounters ==
    (draft # None /\ draft' = None)
        => \A s \in TypedSeries : Entry(store', s) = Entry(store, s)

---------------------------------------------------------------------------
(* Time stamps: saves, edits, series changes and bulk status changes while *)
(* the clock advances.                                                     *)

TimeNext ==
    \/ (clock < MaxClock /\ Tick)
    \/ (nextId <= MaxTimeIds /\ OpenNew)
    \/ OpenEdit
    \/ (OnSeriesChange /\ CountersInBound(store'))
    \/ SaveDraft
    \/ Remove
    \/ Bulk({"complete", "archive"})

SpecTime == ProjInit /\ [][TimeNext]_vars

\* C8: once a project has been saved into the collection, the createdAt of
\* its id is the one it was first saved with, whatever happens later (edit
\* and save, series change, bulk complete, bulk archive, delete and save).
C8_CreatedAtImmutable ==
    \A i \in 1..Len(projects) :
        /\ projects[i].id \in DOMAIN born
        /\ projects[i].createdAt = born[projects[i].id]

\* A project created at 0 was saved again later, in another series and
\* after a bulk action, and still carries createdAt 0.
C8_Witness ==
    \E i \in 1..Len(projects) :
        /\ projects[i].createdAt = 0
        /\ projects[i].updatedAt = MaxClock
        /\ projects[i].series = "Guest Series"
        /\ projects[i].status = "archived"
        /\ MaxClock > 0

---------------------------------------------------------------------------
(* Bulk actions on a collection of several projects, created at different *)
(* instants and with different checklists.                                 *)

\* The ids of the collection: the values of the check boxes of the cards.
Ids(projs) == {projs[i].id : i \in 1..Len(projs)}

BulkNext ==
    \/ (clock < MaxBulkClock /\ Tick)
    \/ (nextId <= MaxBulkIds /\ OpenNew)
    \/ (SetChecklist /\ \A k \in ChecklistKeys \ {"research"} : ~draft'[1].checklist[k])
    \/ SaveDraft
    \/ Bulk({"complete", "archive", "delete"})

SpecBulk == ProjInit /\ [][BulkNext]_vars

\* What C30 states of bulk(action) run on the collection before with the
\* boxes ids checked, the answer confirmed and the clock at t.
BulkAsStated(before, after, action, ids, confirmed, t) ==
    IF ids = {} \/ (action = "delete" /\ ~confirmed) THEN after = before
    ELSE IF action = "delete"
    THEN /\ Ids(after) = Ids(before) \ ids
         /\ after = SelectSeq(before, LAMBDA p : p.id \in Ids(after))
    ELSE /\ Len(after) = Len(before)
         /\ \A i \in 1..Len(before) :
              IF before[i].id \notin ids THEN after[i] = before[i]
              ELSE /\ after[i].status = (IF action = "complete" THEN "completed"
                                                               ELSE "archived")
                   /\ after[i].updatedAt = t
                   /\ \A f \in DOMAIN before[i] \ {"status", "updatedAt"} :
                          after[i][f] = before[i][f]
                   /\ DOMAIN after[i] = DOMAIN before[i]

\* C30: a bulk action changes only the selected projects.  "complete" and
\* "archive" set their status and refresh their updatedAt and leave their
\* other fields alone, "delete" removes exactly them, the projects not
\* selected keep their values and their order, and an empty selection or a
\* declined confirmation leaves the collection as it was.
C30_BulkChangesOnlySelected ==
    [][\A action \in {"complete", "archive", "delete"}, ids \in SUBSET Ids(projects),
          confirmed \in BOOLEAN :
          (draft' = draft /\ projects' = bulk(projects, action, ids, confirmed, clock))
              => BulkAsStated(projects, projects', action, ids, confirmed, clock)]_vars

\* Of two projects the newer one was archived at a later instant than it
\* was saved, with its checklist and progress kept, and the older one is as
\* it was saved.
C30_Witness ==
    /\ Len(projects) = 2
    /\ projects[1].id = 2 /\ projects[2].id = 1
    /\ nextId = 3
    /\ projects[1].status = "archived"
    /\ projects[1].updatedAt = 1 /\ projects[1].createdAt = 0
    /\ projects[1].checklist["research"] /\ projects[1].progressPct = 25
    /\ projects[2].status = "draft"

---------------------------------------------------------------------------
(* Users and session.  A user carries id, email and role; name and         *)
(* createdAt are written at creation and read by no handler.               *)

SeedEmail == "admin@example.com"

\* What can be typed into an email field.
EmailInputs == {"", " ", "admin@example.com", "ADMIN@example.com", "x@s.co", "X@S.CO"}

\* What can be typed into the name field of the team form.
NameInputs == {"", "Pat"}

\* String.prototype.toLowerCase on the strings above.
toLowerCase(e) ==
    CASE e = "ADMIN@example.com" -> "admin@example.com"
      [] e = "X@S.CO"            -> "x@s.co"
      [] OTHER                   -> e

\* String.prototype.trim on the strings above.
trim(e) == IF e = " " THEN "" ELSE e

\* users.find(pred), given the positions at which pred holds: <<>> or
\* <<the first user satisfying pred>>
find(us, at) ==
    IF at = {} THEN None
    ELSE Some(us[CHOOSE i \in at : \A j \in at : i <= j])

\* getSession().userId: the stored object may lack the key.
getSession(st) == load(st, "session", None)

\* A setSession that writes nothing when it is given no userId.
setSession_NoClear(st, userId, ok) ==
    IF userId = None THEN [store |-> st, thrown |-> FALSE]
    ELSE save(st, "session", userId, ok)

\* setSession(userId): JSON.stringify drops an undefined userId.
setSession(st, userId, ok) == save(st, "session", userId, ok)

\* An ensureSeedAdmin that also seeds over a collection without an admin.
ensureSeedAdmin_WhenNoAdmin(st, id, ok) ==
    IF \A i \in 1..Len(load(st, "users", <<>>)) : load(st, "users", <<>>)[i].role # "admin"
    THEN save(st, "users", <<[id |-> id, email |-> SeedEmail, role |-> "admin"]>>, ok).store
    ELSE st

\* An ensureSeedAdmin that seeds only when the key is absent.
ensureSeedAdmin_AbsentOnly(st, id, ok) ==
    IF st["users"] = None
    THEN save(st, "users", <<[id |-> id, email |-> SeedEmail, role |-> "admin"]>>, ok).store
    ELSE st

\* ensureSeedAdmin, at module load; id is uid("usr").
ensureSeedAdmin(st, id, ok) ==
    IF Len(load(st, "users", <<>>)) = 0
    THEN save(st, "users", <<[id |-> id, email |-> SeedEmail, role |-> "admin"]>>, ok).store
    ELSE st

\* const currentUser = users.find(u => u.id === session.userId)
currentUser(us, sess) ==
    IF sess = None THEN None ELSE find(us, {i \in 1..Len(us) : us[i].id = sess[1]})

\* A login that compares the emails as typed.
handleLogin_CaseSensitive(us, email, id) ==
    IF trim(email) = "" THEN [alerted |-> TRUE, users |-> us, userId |-> None]
    ELSE LET found == find(us, {i \in 1..Len(us) : us[i].email = email})
             u == IF found = None
                  THEN [id |-> id, email |-> email, role |-> "member"]
                  ELSE found[1]
         IN  [alerted |-> FALSE,
              users   |-> IF found = None THEN Append(us, u) ELSE us,
              userId  |-> Some(u.id)]

\* handleLogin(email): what it alerts, the collection setUsers produces and
\* the userId it hands to setSession.  id is uid("usr").
handleLogin(us, email, id) ==
    IF trim(email) = "" THEN [alerted |-> TRUE, users |-> us, userId |-> None]
    ELSE LET found == find(us, {i \in 1..Len(us) :
                                   toLowerCase(us[i].email) = toLowerCase(email)})
             u == IF found = None
                  THEN [id |-> id, email |-> email, role |-> "member"]
                  ELSE found[1]
         IN  [alerted |-> FALSE,
              users   |-> IF found = None THEN Append(us, u) ELSE us,
              userId  |-> Some(u.id)]

\* A team add without the existence check.
add_NoCheck(us, name, email, id) ==
    IF trim(name) = "" \/ trim(email) = "" THEN us
    ELSE Append(us, [id |-> id, email |-> email, role |-> "member"])

\* TeamPage.add: the collection setUsers produces.
add(us, name, email, id) ==
    IF trim(name) = "" \/ trim(email) = "" THEN us
    ELSE IF \E i \in 1..Len(us) : toLowerCase(us[i].email) = toLowerCase(email) THEN us
    ELSE Append(us, [id |-> id, email |-> email, role |-> "member"])

\* TeamPage.add: the text it hands to alert(), <<>> when it shows none.
addAlert(us, name, email) ==
    IF trim(name) = "" \/ trim(email) = "" THEN None
    ELSE IF \E i \in 1..Len(us) : toLowerCase(us[i].email) = toLowerCase(email)
         THEN Some("Email already exists.")
    ELSE None

\* TeamPage.del
del(us, id, confirmed) ==
    IF ~confirmed THEN us ELSE SelectSeq(us, LAMBDA u : u.id # id)

\* TeamPage.promote
promote(us, id, role) ==
    [i \in 1..Len(us) |-> IF us[i].id = id THEN [us[i] EXCEPT !.role = role] ELSE us[i]]

\* StudioCastPortal renders again after setUsers changed the collection:
\* the smoke tests run, then the effect on [users] saves it.
mirrorUsers_Patch(st, before, after, ok) ==
    IF after = before THEN st
    ELSE save(runSmokeTests(st, AllOk).store, "users",
              SelectSeq(after, LAMBDA u : \A i \in 1..Len(before) : before[i] # u), ok).store

mirrorUsers(st, before, after, ok) ==
    IF after = before THEN st
    ELSE save(runSmokeTests(st, AllOk).store, "users", after, ok).store

\* StudioCastPortal mounts: the smoke tests run, then every persistence
\* effect saves the collection it was mounted with.
mount(st, us, projs, gs, ok) ==
    save(save(save(runSmokeTests(st, AllOk).store, "users", us, ok).store,
              "projects", projs, TRUE).store,
         "guests", gs, TRUE).store

\* A fresh browser before the page is loaded for the first time: nothing
\* is stored and no component is mounted.
UsersInit ==
    /\ store = EmptyStore
    /\ users = <<>>
    /\ session = None
    /\ phase = "unloaded"
    /\ nextUid = 1
    /\ lastLogin = None
    /\ AllocIdle
    /\ TabsIdle
    /\ ProjIdle
    /\ CalcIdle
    /\ ViewIdle
    /\ PageIdle

\* AuthScreen, "Enter Portal": handleLogin runs, the effect mirrors the
\* users, the page starts to reload.
HandleLoginWith(email, okSession, okUsers) ==
        LET r  == handleLogin(users, email, nextUid)
            s1 == IF r.alerted THEN store ELSE setSession(store, r.userId, okSession).store
        IN
        /\ phase = "ready"
        /\ currentUser(users, session) = None
        /\ users' = r.users
        /\ nextUid' = IF r.users = users THEN nextUid ELSE nextUid + 1
        /\ store' = mirrorUsers(s1, users, r.users, okUsers)
        /\ phase' = IF r.alerted THEN "ready" ELSE "reloading"
        /\ lastLogin' = IF r.alerted THEN None
                        ELSE Some([email |-> email, before |-> users, done |-> FALSE])
        /\ everFailed' = (everFailed \/ (~r.alerted /\ ~okSession)
                                     \/ (r.users # users /\ ~okUsers))
        /\ prompt' = IF r.alerted THEN Some("Email required") ELSE None
        /\ UNCHANGED <<session, issued, last, tabVars, projVars, calcVars, viewVars,
                       view, guestVars>>

HandleLogin ==
    \E email \in EmailInputs, okSession \in BOOLEAN, okUsers \in BOOLEAN :
        HandleLoginWith(email, okSession, okUsers)

\* Shell, "Logout"
HandleLogout ==
    \E ok \in BOOLEAN :
        /\ phase = "ready"
        /\ currentUser(users, session) # None
        /\ store' = setSession(store, None, ok).store
        /\ phase' = "reloading"
        /\ lastLogin' = None
        /\ everFailed' = (everFailed \/ ~ok)
        /\ prompt' = None
        /\ UNCHANGED <<users, session, nextUid, issued, last, tabVars, projVars, calcVars, viewVars,
                       view, guestVars>>

\* The page loads again (after reload(), or because the user reloads it):
\* ensureSeedAdmin runs, the state is read from the store, the session is
\* read once, and the effect on [users] runs for the mounted collection.
Reload ==
    \E okSeed \in BOOLEAN, okMount \in BOOLEAN :
        LET seeds  == Len(load(store, "users", <<>>)) = 0
            s1     == ensureSeedAdmin(store, nextUid, okSeed)
            loaded == load(s1, "users", <<>>)
        IN
        /\ users' = loaded
        /\ session' = getSession(s1)
        /\ projects' = load(s1, "projects", <<>>)
        /\ draft' = None
        /\ guests' = load(s1, "guests", <<>>)
        /\ g' = None
        /\ prompt' = None
        /\ store' = mount(s1, loaded, projects', guests', okMount)
        /\ nextUid' = IF seeds THEN nextUid + 1 ELSE nextUid
        /\ phase' = "ready"
        /\ lastLogin' = IF phase = "reloading" /\ lastLogin # None
                        THEN Some([lastLogin[1] EXCEPT !.done = TRUE])
                        ELSE None
        /\ everFailed' = (everFailed \/ (seeds /\ ~okSeed) \/ ~okMount)
        /\ UNCHANGED <<issued, last, tabVars, nextId, clock, born, calcVars, viewVars, view,
                       nextGid>>

\* TeamPage, "Add"
TeamAddWith(name, email, ok) ==
        /\ phase = "ready"
        /\ currentUser(users, session) # None
        /\ users' = add(users, name, email, nextUid)
        /\ nextUid' = IF users' = users THEN nextUid ELSE nextUid + 1
        /\ store' = mirrorUsers(store, users, users', ok)
        /\ everFailed' = (everFailed \/ (users' # users /\ ~ok))
        /\ lastLogin' = None
        /\ prompt' = addAlert(users, name, email)
        /\ UNCHANGED <<session, phase, issued, last, tabVars, projVars, calcVars, viewVars,
                       view, guestVars>>

TeamAdd ==
    \E name \in NameInputs, email \in EmailInputs, ok \in BOOLEAN :
        TeamAddWith(name, email, ok)

\* TeamPage, "Remove": the button is rendered for admins only.
TeamDelWith(i, confirmed, ok) ==
        /\ phase = "ready"
        /\ currentUser(users, session) # None
        /\ currentUser(users, session)[1].role = "admin"
        /\ users' = del(users, users[i].id, confirmed)
        /\ store' = mirrorUsers(store, users, users', ok)
        /\ everFailed' = (everFailed \/ (users' # users /\ ~ok))
        /\ lastLogin' = None
        /\ prompt' = None
        /\ UNCHANGED <<session, phase, nextUid, issued, last, tabVars, projVars, calcVars, viewVars,
                       view, guestVars>>

TeamDel ==
    \E i \in 1..Len(users), confirmed \in BOOLEAN, ok \in BOOLEAN :
        TeamDelWith(i, confirmed, ok)

\* TeamPage, "Make Admin" / "Make Member": rendered for admins only, and
\* only the button of the role the user does not have.
TeamPromote ==
    \E i \in 1..Len(users), role \in {"admin", "member"}, ok \in BOOLEAN :
        /\ phase = "ready"
        /\ currentUser(users, session) # None
        /\ currentUser(users, session)[1].role = "admin"
        /\ users[i].role # role
        /\ users' = promote(users, users[i].id, role)
        /\ store' = mirrorUsers(store, users, users', ok)
        /\ everFailed' = (everFailed \/ (users' # users /\ ~ok))
        /\ lastLogin' = None
        /\ prompt' = None
        /\ UNCHANGED <<session, phase, nextUid, issued, last, tabVars, projVars, calcVars, viewVars,
                       view, guestVars>>

UsersNext ==
    \/ (nextUid <= MaxUids /\ HandleLogin)
    \/ HandleLogout
    \/ (nextUid <= MaxUids /\ Reload)
    \/ (nextUid <= MaxUids /\ TeamAdd)
    \/ TeamDel
    \/ TeamPromote

SpecUsers == UsersInit /\ [][UsersNext]_vars

\* C9: no two users of the collection have emails that are equal when
\* compared case-insensitively.
C9_EmailsUniqueIgnoringCase ==
    \A i, j \in 1..Len(users) :
        i # j => toLowerCase(users[i].email) # toLowerCase(users[j].email)

\* A logged-in session with two users in the collection, the second
\* created under an email typed in capitals.
C9_Witness ==
    /\ Len(users) = 2
    /\ \E i \in 1..2 : users[i].email = "X@S.CO"
    /\ nextUid = 3
    /\ session # None

\* What ensureSeedAdmin does to the store of the current state when its
\* write lands (ok) or is refused: an absent or empty collection becomes
\* one admin with the seed email, a non-empty one is left as it is.
SeedsAsStated(ok) ==
    LET before == load(store, "users", <<>>)
        s1     == ensureSeedAdmin(store, nextUid, ok)
        after  == load(s1, "users", <<>>)
    IN  IF Len(before) = 0
        THEN /\ Len(after) = 1
             /\ after[1].role = "admin"
             /\ after[1].email = SeedEmail
             /\ \A k \in LS_KEYS \ {"users"} : s1[k] = store[k]
        ELSE s1 = store

NoAdmin(us) == us # <<>> /\ \A i \in 1..Len(us) : us[i].role # "admin"

MemberIsCurrent ==
    /\ phase = "ready"
    /\ currentUser(users, session) # None
    /\ currentUser(users, session)[1].role = "member"

\* C14: while the current user is a member, no step changes the user
\* collection (with no store write failing, so that a reload reads back
\* what is in memory and only the team operations can change it).
C14_MemberChangesNothing ==
    [][(MemberIsCurrent /\ ~everFailed') => users' = users]_vars

\* handleLogout has run and the page has not loaded again yet.
AfterLogout == phase = "reloading" /\ lastLogin = None

LoginDone == lastLogin # None /\ lastLogin[1].done

LoginExisted ==
    \E i \in 1..Len(lastLogin[1].before) :
        toLowerCase(lastLogin[1].before[i].email) = toLowerCase(lastLogin[1].email)

LoginOutcome ==
    LET L  == lastLogin[1]
        cu == currentUser(users, session)
        n  == Len(L.before)
    IN  /\ cu # None
        /\ toLowerCase(cu[1].email) = toLowerCase(L.email)
        /\ store["session"] = Some(Some(cu[1].id))
        /\ LoginExisted => users = L.before
        /\ ~LoginExisted =>
              /\ Len(users) = n + 1
              /\ SubSeq(users, 1, n) = L.before
              /\ users[n + 1].email = L.email
              /\ users[n + 1].role = "member"
              /\ cu[1] = users[n + 1]
              /\ store["users"] = Some(users)

---------------------------------------------------------------------------
(* Guests.  A guest carries id, name and createdAt; the other fields are   *)
(* optional texts written by the form and read by no handler.  The         *)
(* handlers of GuestsPage are prefixed with the component's name where a   *)
(* handler of another component has the same name.                         *)

\* What can be typed into the name field of the guest form.
GuestNames == {"", " ", "Ann", "Bo"}

\* open(guest): setG(guest || {id: uid("gst"), name: "", createdAt: now()})
GuestsPage_open(guest, id, t) ==
    IF guest # None THEN guest ELSE Some([id |-> id, name |-> "", createdAt |-> t])

\* The name input: setG({...g, name})
setName(gd, name) == Some([gd EXCEPT !.name = name])

\* A save of the guest form that does not look at the name.
GuestsPage_save_NoCheck(gs, gd) ==
    [alerted |-> FALSE,
     guests  |-> IF \E i \in 1..Len(gs) : gs[i].id = gd.id
                 THEN [i \in 1..Len(gs) |-> IF gs[i].id = gd.id THEN gd ELSE gs[i]]
                 ELSE <<gd>> \o gs]

\* A save of the guest form that puts a new guest at the end.
GuestsPage_save_Append(gs, gd) ==
    IF trim(gd.name) = "" THEN [alerted |-> TRUE, guests |-> gs]
    ELSE [alerted |-> FALSE,
          guests  |-> IF \E i \in 1..Len(gs) : gs[i].id = gd.id
                      THEN [i \in 1..Len(gs) |-> IF gs[i].id = gd.id THEN gd ELSE gs[i]]
                      ELSE gs \o <<gd>>]

\* GuestsPage.save, gd being the draft: whether it alerts "Name required"
\* and the collection setGuests produces.
GuestsPage_save(gs, gd) ==
    IF trim(gd.name) = "" THEN [alerted |-> TRUE, guests |-> gs]
    ELSE [alerted |-> FALSE,
          guests  |-> IF \E i \in 1..Len(gs) : gs[i].id = gd.id
                      THEN [i \in 1..Len(gs) |-> IF gs[i].id = gd.id THEN gd ELSE gs[i]]
                      ELSE <<gd>> \o gs]

\* A delete that removes the guest at the head of the collection.
GuestsPage_del_Head(gs, id, confirmed) ==
    IF ~confirmed THEN gs ELSE Tail(gs)

\* GuestsPage.del; confirmed is the answer to confirm("Delete guest?").
GuestsPage_del(gs, id, confirmed) ==
    IF ~confirmed THEN gs ELSE SelectSeq(gs, LAMBDA x : x.id # id)

\* The guest select of the project form: set({guestId: value || undefined})
setGuestId(d, gid) == Some([d EXCEPT !.guestId = gid])

\* StudioCastPortal renders after setGuests: the body runs runSmokeTests,
\* then the effect on [guests] saves the collection.  Writes land.
renderGuests(st, gs) ==
    save(runSmokeTests(st, AllOk).store, "guests", gs, TRUE).store

\* "New Guest"
GuestOpenNew ==
    /\ g' = GuestsPage_open(None, nextGid, clock)
    /\ nextGid' = nextGid + 1
    /\ prompt' = None
    /\ UNCHANGED <<store, guests, allocVars, tabVars, projVars, userVars, calcVars,
                   viewVars, view>>

\* "Edit" on a guest card
GuestOpenEdit ==
    \E i \in 1..Len(guests) :
        /\ g' = GuestsPage_open(Some(guests[i]), nextGid, clock)
        /\ prompt' = None
        /\ UNCHANGED <<store, guests, nextGid, allocVars, tabVars, projVars, userVars,
                       calcVars, viewVars, view>>

\* The name field of the guest form
GuestSetName ==
    \E name \in GuestNames :
        /\ g # None
        /\ g' = setName(g[1], name)
        /\ prompt' = None
        /\ UNCHANGED <<store, guests, nextGid, allocVars, tabVars, projVars, userVars,
                       calcVars, viewVars, view>>

\* "Save" of the guest form
GuestSave ==
    /\ g # None
    /\ LET r == GuestsPage_save(guests, g[1]) IN
        /\ guests' = r.guests
        /\ g' = IF r.alerted THEN g ELSE None
        /\ prompt' = IF r.alerted THEN Some("Name required") ELSE None
        /\ store' = IF r.alerted THEN store ELSE renderGuests(store, r.guests)
    /\ UNCHANGED <<nextGid, allocVars, tabVars, projVars, userVars, calcVars, viewVars, view>>

\* Modal onClose of the guest form
GuestClose ==
    /\ g # None
    /\ g' = None
    /\ prompt' = None
    /\ UNCHANGED <<store, guests, nextGid, allocVars, tabVars, projVars, userVars,
                   calcVars, viewVars, view>>

\* "Delete" on the card of the i-th guest
GuestDelWith(i, confirmed) ==
        /\ guests' = GuestsPage_del(guests, guests[i].id, confirmed)
        /\ store' = IF confirmed THEN renderGuests(store, guests') ELSE store
        /\ prompt' = None
        /\ UNCHANGED <<g, nextGid, allocVars, tabVars, projVars, userVars, calcVars,
                       viewVars, view>>

GuestDel ==
    \E i \in 1..Len(guests), confirmed \in BOOLEAN : GuestDelWith(i, confirmed)

\* The guest select of the project form: "none" or one of the guests.
SetGuestId ==
    \E gid \in {None} \cup {Some(guests[i].id) : i \in 1..Len(guests)} :
        /\ draft # None
        /\ draft' = setGuestId(draft[1], gid)
        /\ UNCHANGED <<store, projects, nextId, clock, born, allocVars, tabVars, userVars,
                       calcVars, viewVars, pageVars>>

---------------------------------------------------------------------------
(* The portal with its three collections in one tab, store writes landing: *)
(* login, team, projects and guests.  A form is a modal dialog, so while   *)
(* one is open nothing behind it can be clicked.                           *)

LoggedIn == phase = "ready" /\ currentUser(users, session) # None

NoForm == draft = None /\ g = None

\* the emails the users of this exploration have
StudioEmails == {SeedEmail, "x@s.co"}

StudioNext ==
    \/ (Reload /\ ~everFailed' /\ nextUid' <= MaxStudioUids + 1)
    \/ (HandleLogin /\ ~everFailed' /\ nextUid' <= MaxStudioUids + 1
                    /\ \A i \in 1..Len(users') : users'[i].email \in StudioEmails)
    \/ (NoForm /\ TeamAdd /\ ~everFailed' /\ nextUid' <= MaxStudioUids + 1
                    /\ \A i \in 1..Len(users') : users'[i].email \in StudioEmails)
    \/ (NoForm /\ TeamDel /\ ~everFailed')
    \/ (LoggedIn /\ NoForm /\ nextId <= MaxStudioIds /\ OpenNew)
    \/ (LoggedIn /\ NoForm /\ OpenEdit)
    \/ (LoggedIn /\ SetGuestId)
    \/ (LoggedIn /\ SaveDraft)
    \/ (LoggedIn /\ CloseForm)
    \/ (LoggedIn /\ NoForm /\ Remove)
    \/ (LoggedIn /\ NoForm /\ nextGid <= MaxStudioGids /\ GuestOpenNew)
    \/ (LoggedIn /\ NoForm /\ GuestOpenEdit)
    \/ (LoggedIn /\ GuestSetName /\ g'[1].name \in {" ", "Ann"})
    \/ (LoggedIn /\ GuestSave)
    \/ (LoggedIn /\ GuestClose)
    \/ (LoggedIn /\ NoForm /\ GuestDel)

SpecStudio == UsersInit /\ [][StudioNext]_vars

\* a step that changed no collection, not the session and nothing stored
NothingChanged ==
    /\ users' = users /\ guests' = guests /\ projects' = projects
    /\ session' = session /\ store' = store

\* the inputs that fail validation
BlankEmails == {e \in EmailInputs : trim(e) = ""}

BlankTeamInputs ==
    {pair \in NameInputs \X EmailInputs : trim(pair[1]) = "" \/ trim(pair[2]) = ""}

\* (a refused attempt writes nothing, so the outcome of a write does not
\* enter into it)
\* C24 as stated: every create attempt that fails validation (blank login
\* email, blank team name or email, blank guest name) shows a prompt and
\* changes nothing.
C24_Original ==
    [][ /\ \A email \in BlankEmails :
              HandleLoginWith(email, TRUE, TRUE) =>
                  (prompt' # None /\ NothingChanged)
        /\ \A pair \in BlankTeamInputs :
              TeamAddWith(pair[1], pair[2], TRUE) =>
                  (prompt' # None /\ NothingChanged)
        /\ (g # None /\ trim(g[1].name) = "" /\ GuestSave) =>
                  (prompt' # None /\ NothingChanged)
      ]_vars

\* C24: a login with a blank email shows the prompt "Email required", a
\* guest save with a blank name shows the prompt "Name required" and keeps
\* the form open, a team add with a blank name or email returns without
\* any prompt; each of them leaves users, guests, projects, the session
\* and the store exactly as before.
C24_InvalidCreateChangesNothing ==
    [][ /\ \A email \in BlankEmails :
              HandleLoginWith(email, TRUE, TRUE) =>
                  (prompt' = Some("Email required") /\ NothingChanged)
        /\ \A pair \in BlankTeamInputs :
              TeamAddWith(pair[1], pair[2], TRUE) =>
                  (prompt' = None /\ NothingChanged)
        /\ (g # None /\ trim(g[1].name) = "" /\ GuestSave) =>
                  (prompt' = Some("Name required") /\ g' = g /\ NothingChanged)
      ]_vars

\* the name of a stored guest was blanked in the form and the save was
\* refused: the prompt is up, the form is open, the guest is as stored
C24_Witness ==
    /\ prompt = Some("Name required")
    /\ g # None /\ g[1].name = " "
    /\ Len(guests) = 1 /\ guests[1].id = g[1].id /\ guests[1].name = "Ann"
    /\ store["guests"] = Some(guests)
    /\ Len(users) = 2

\* the collection without its i-th record, the others in their order
RemovedAt(before, after, i) ==
    after = SubSeq(before, 1, i - 1) \o SubSeq(before, i + 1, Len(before))

\* C23: a confirmed delete removes exactly the record it was asked to
\* remove and cleans up nothing else: deleting a guest leaves the projects
\* (and the users) as they were, in memory and in the store, deleting a
\* project leaves guests and users, deleting a user leaves projects, guests
\* and the session.
C23_DeleteDoesNotCascade ==
    [][ /\ \A i \in 1..Len(guests) : GuestDelWith(i, TRUE) =>
              /\ RemovedAt(guests, guests', i)
              /\ projects' = projects /\ users' = users
              /\ store'["projects"] = store["projects"]
              /\ store'["users"] = store["users"]
        /\ \A i \in 1..Len(projects) : RemoveWith(i, TRUE) =>
              /\ RemovedAt(projects, projects', i)
              /\ guests' = guests /\ users' = users
              /\ store'["guests"] = store["guests"]
              /\ store'["users"] = store["users"]
        /\ \A i \in 1..Len(users), ok \in BOOLEAN : TeamDelWith(i, TRUE, ok) =>
              /\ RemovedAt(users, users', i)
              /\ projects' = projects /\ guests' = guests /\ session' = session
              /\ store'["projects"] = store["projects"]
              /\ store'["guests"] = store["guests"]
      ]_vars

\* guest 1 was deleted while guest 2 stays, and a project still names
\* guest 1
C23_Witness ==
    /\ Len(guests) = 1 /\ guests[1].id = 2
    /\ g = None /\ draft = None
    /\ Len(projects) = 2
    /\ projects[2].guestId = Some(1)
    /\ store["projects"] = Some(projects)
    /\ store["guests"] = Some(guests)

\* ---------------------------------------------------------------------
\* Saving a project or a guest from its form, with the clock running
\* ---------------------------------------------------------------------
MaxSaveIds == 2
MaxSaveGids == 2
MaxSaveClock == 1

SavesNext ==
    \/ (clock < MaxSaveClock /\ Tick)
    \/ (NoForm /\ nextId <= MaxSaveIds /\ OpenNew)
    \/ (NoForm /\ OpenEdit)
    \/ (SetChecklist /\ \A k \in ChecklistKeys \ {"research"} : ~draft'[1].checklist[k])
    \/ SaveDraft
    \/ (NoForm /\ nextGid <= MaxSaveGids /\ GuestOpenNew)
    \/ (NoForm /\ GuestOpenEdit)
    \/ (GuestSetName /\ g'[1].name \in {"Ann", "Bo"})
    \/ GuestSave

SpecSaves == ProjInit /\ [][SavesNext]_vars

\* what the collection looks like after a record with this id was saved
SavedAsStated(before, after, id) ==
    IF \E i \in 1..Len(before) : before[i].id = id
    THEN /\ Len(after) = Len(before)
         /\ \A i \in 1..Len(before) :
                /\ after[i].id = before[i].id
                /\ before[i].id # id => after[i] = before[i]
    ELSE /\ Len(after) = Len(before) + 1
         /\ after[1].id = id
         /\ Tail(after) = before

\* C22: saving a project or guest draft whose id is not in the collection
\* prepends it (the collection grows by one, the old records follow in
\* their order); saving one whose id is in the collection replaces that
\* record where it stands and leaves length, order and every other record
\* unchanged.  The saved record carries the form's content.
C22_SavePrependsOrReplaces ==
    [][ /\ SaveDraft =>
            /\ SavedAsStated(projects, projects', draft[1].id)
            /\ \E i \in 1..Len(projects') :
                  /\ projects'[i].id = draft[1].id
                  /\ projects'[i].checklist = draft[1].checklist
                  /\ projects'[i].series = draft[1].series
                  /\ projects'[i].episodeNumber = draft[1].episodeNumber
        /\ (GuestSave /\ prompt' = None) =>
            /\ SavedAsStated(guests, guests', g[1].id)
            /\ \E i \in 1..Len(guests') : guests'[i] = g[1]
      ]_vars

\* project 1 was saved, project 2 was prepended at time 0, and project 1
\* was saved again at time 1 and kept its place behind project 2; the
\* guests likewise, guest 1 renamed
C22_Witness ==
    /\ draft = None /\ g = None
    /\ Len(projects) = 2
    /\ projects[1].id = 2 /\ projects[1].updatedAt = 0
    /\ projects[2].id = 1 /\ projects[2].updatedAt = 1
    /\ projects[2].checklist["research"]
    /\ Len(guests) = 2
    /\ guests[1].id = 2 /\ guests[1].name = "Ann"
    /\ guests[2].id = 1 /\ guests[2].name = "Bo"

\* C25: in a single tab whose store writes succeed, once the portal is
\* mounted the value stored under "users", "projects" and "guests" is the
\* whole in-memory collection after every handler and its persistence
\* effect.  (An optional field that is undefined and a key that is absent
\* are both None in this model, which is what JSON.stringify makes of them.)
C25_CollectionsMirrored ==
    phase # "unloaded" =>
        /\ store["users"] = Some(users)
        /\ store["projects"] = Some(projects)
        /\ store["guests"] = Some(guests)

C25_Witness ==
    /\ phase = "ready"
    /\ Len(users) = 2
    /\ Len(projects) = 2
    /\ Len(guests) = 1
    /\ store["users"] = Some(users)
    /\ store["projects"] = Some(projects)
    /\ store["guests"] = Some(guests)

---------------------------------------------------------------------------
(* Dashboard.  The values below are computed from the collection on every  *)
(* render; they are not state.  A project shown here carries the fields    *)
(* the dashboard and the project list read.  Text is a sequence of         *)
(* characters; scheduledRecordAt is optional: <<>> or <<text>>.            *)

Project(title, description, tags, series, episodeNumber, status, priority, progressPct, updatedAt, scheduledRecordAt) ==
    [title |-> title, description |-> description, tags |-> tags, series |-> series,
     episodeNumber |-> episodeNumber, status |-> status, priority |-> priority,
     progressPct |-> progressPct, updatedAt |-> updatedAt,
     scheduledRecordAt |-> scheduledRecordAt]

Max(a, b) == IF a >= b THEN a ELSE b

\* An active list that keeps the projects of status "active" only.
active_StatusActive(projs) == SelectSeq(projs, LAMBDA p : p.status = "active")

\* projects.filter(p => p.status !== "archived")
active(projs) == SelectSeq(projs, LAMBDA p : p.status # "archived")

\* projects.filter(p => p.status === "completed")
completed(projs) == SelectSeq(projs, LAMBDA p : p.status = "completed")

\* list.reduce((sum, p) => sum + p.progressPct, 0)
RECURSIVE reduceSum(_)
reduceSum(list) ==
    IF list = <<>> THEN 0 ELSE list[1].progressPct + reduceSum(Tail(list))

\* An average taken over every project, the archived ones included.
avgProgress_OverAll(projs) ==
    MathRound(reduceSum(active(projs)), Max(1, Len(projs)))

\* Math.round(sum / Math.max(1, active.length)); the quotient of two
\* numbers with a divisor >= 1 is a number, so the isNaN guard of the
\* "Avg Progress" stat lets it through.
avgProgress(projs) ==
    MathRound(reduceSum(active(projs)), Max(1, Len(active(projs))))

\* The stats row: Projects, Active, Completed, Avg Progress.
Stats(projs) ==
    [projects    |-> Len(projs),
     active      |-> Len(active(projs)),
     completed   |-> Len(completed(projs)),
     avgProgress |-> avgProgress(projs)]

\* The saved projects the counts are explored on: every status, three of
\* the progress values, no recording date.
StatsCatalogue ==
    {Project(<<>>, <<>>, <<>>, <<"M">>, 1, st, "medium", pct, 0, None) :
        st \in {STATUSES[i] : i \in 1..Len(STATUSES)}, pct \in {0, 25, 100}}

\* ProjectForm.set fills the draft of a new project in, saveDraft puts it
\* at the head of the collection, the effect on [projects] saves it.
SaveFilled(catalogue) ==
    \E p \in catalogue :
        /\ projects' = <<p>> \o projects
        /\ store' = renderProjects(store, projects')
        /\ UNCHANGED <<draft, nextId, clock, born, allocVars, tabVars, userVars,
                       calcVars, viewVars, pageVars>>

StatsNext == (Len(projects) < MaxStats /\ SaveFilled(StatsCatalogue))

SpecStats == ProjInit /\ [][StatsNext]_vars

\* The positions of the projects that are not archived.
NotArchived(projs) == {i \in 1..Len(projs) : projs[i].status # "archived"}

\* C15: Active counts the projects whose status is draft, active or
\* completed (everything but archived) and Completed counts those whose
\* status is completed.
C15_DashboardCounts ==
    /\ Stats(projects).active =
          Cardinality({i \in 1..Len(projects) :
                          projects[i].status \in {"draft", "active", "completed"}})
    /\ Stats(projects).active = Cardinality(NotArchived(projects))
    /\ Stats(projects).completed =
          Cardinality({i \in 1..Len(projects) : projects[i].status = "completed"})

\* Scenario D: one project of each status, Active 3 and Completed 1.
C15_Witness ==
    /\ Len(projects) = 4
    /\ \A i \in 1..4 : projects[i].status = STATUSES[i]
    /\ Stats(projects).active = 3
    /\ Stats(projects).completed = 1

\* The sum of progressPct over the positions in idxs.
RECURSIVE SumPct(_, _)
SumPct(projs, idxs) ==
    IF idxs = {} THEN 0
    ELSE LET i == CHOOSE i \in idxs : TRUE
         IN  projs[i].progressPct + SumPct(projs, idxs \ {i})

\* C16: Avg Progress is the mean progressPct of the non-archived projects
\* rounded to the nearest integer (halves up), and 0 when there is none.
C16_AvgProgress ==
    LET n   == Cardinality(NotArchived(projects))
        sum == SumPct(projects, NotArchived(projects))
        avg == Stats(projects).avgProgress
    IN  IF n = 0 THEN avg = 0
        ELSE /\ 2 * n * avg - n <= 2 * sum
             /\ 2 * sum < 2 * n * avg + n

\* Two active projects at 25 and 0 and an archived one at 100: the mean
\* 12.5 is shown as 13.
C16_Witness ==
    /\ Len(projects) = 3
    /\ projects[1].status = "active" /\ projects[1].progressPct = 25
    /\ projects[2].status = "draft" /\ projects[2].progressPct = 0
    /\ projects[3].status = "archived" /\ projects[3].progressPct = 100
    /\ Stats(projects).avgProgress = 13

---------------------------------------------------------------------------
(* Text, collation and Array.prototype.sort.                               *)
(* A character is a one-letter string, or the name of its code point       *)
(* ("U+00E9" is e with acute accent, "U+0301" the combining acute accent). *)

UpperCase ==
    <<"A", "B", "C", "D", "E", "F", "G", "H", "I", "J", "K", "L", "M",
      "N", "O", "P", "Q", "R", "S", "T", "U", "V", "W", "X", "Y", "Z">>

LowerCase ==
    <<"a", "b", "c", "d", "e", "f", "g", "h", "i", "j", "k", "l", "m",
      "n", "o", "p", "q", "r", "s", "t", "u", "v", "w", "x", "y", "z">>

\* The lower-case letter of every upper-case letter.
LowerOf ==
    [u \in {UpperCase[i] : i \in 1..26} |->
        LowerCase[CHOOSE i \in 1..26 : UpperCase[i] = u]]

\* toLowerCase of one character.
lowerChar(ch) == IF ch \in DOMAIN LowerOf THEN LowerOf[ch] ELSE ch

\* String.prototype.toLowerCase on a text.
toLowerCaseText(t) == [i \in 1..Len(t) |-> lowerChar(t[i])]

\* Canonical composition, which a collator applies before it compares:
\* "e" followed by U+0301 is the same letter as U+00E9.
RECURSIVE nfc(_)
nfc(t) ==
    IF t = <<>> THEN <<>>
    ELSE IF Len(t) >= 2 /\ t[1] = "e" /\ t[2] = "U+0301"
         THEN <<"U+00E9">> \o nfc(SubSeq(t, 3, Len(t)))
         ELSE <<t[1]>> \o nfc(Tail(t))

\* The base characters in collation order: space, punctuation, digits,
\* letters.
Collation ==
    <<" ", "-", ":", "0", "1", "2", "3", "4", "5", "6", "7", "8", "9",
      "a", "b", "c", "d", "e", "f", "g", "h", "i", "j", "k", "l", "m",
      "n", "o", "p", "q", "r", "s", "t", "u", "v", "w", "x", "y", "z">>

\* Primary weight: the place of the base letter, whatever its case and accent.
PrimaryWeight ==
    [b \in {Collation[i] : i \in 1..Len(Collation)} |->
        CHOOSE i \in 1..Len(Collation) : Collation[i] = b]

primary(ch) == PrimaryWeight[IF ch = "U+00E9" THEN "e" ELSE lowerChar(ch)]

\* Secondary weight: the accent.
secondary(ch) == IF ch = "U+00E9" THEN 1 ELSE 0

\* Tertiary weight: lower case before upper case.
tertiary(ch) == IF lowerChar(ch) # ch THEN 1 ELSE 0

\* Lexicographic comparison of two sequences of weights: -1, 0 or 1.
RECURSIVE cmpWeights(_, _)
cmpWeights(x, y) ==
    IF x = <<>> /\ y = <<>> THEN 0
    ELSE IF x = <<>> THEN -1
    ELSE IF y = <<>> THEN 1
    ELSE IF x[1] < y[1] THEN -1
    ELSE IF x[1] > y[1] THEN 1
    ELSE cmpWeights(Tail(x), Tail(y))

\* String.prototype.localeCompare: canonically equivalent texts compare
\* equal; otherwise the primary weights decide, then accents, then case.
localeCompare(a, b) ==
    LET x == nfc(a)
        y == nfc(b)
        l1 == cmpWeights([i \in 1..Len(x) |-> primary(x[i])],
                         [i \in 1..Len(y) |-> primary(y[i])])
        l2 == cmpWeights([i \in 1..Len(x) |-> secondary(x[i])],
                         [i \in 1..Len(y) |-> secondary(y[i])])
        l3 == cmpWeights([i \in 1..Len(x) |-> tertiary(x[i])],
                         [i \in 1..Len(y) |-> tertiary(y[i])])
    IN  IF l1 # 0 THEN l1 ELSE IF l2 # 0 THEN l2 ELSE l3

\* A comparator given as the table of its values on a list, c[i][j] for
\* the elements at i and j, is consistent when it orders the elements
\* into totally ordered equivalence classes (ECMAScript, Array.prototype.sort).
Consistent(c) ==
    LET I == 1..Len(c)
    IN  /\ \A i \in I : c[i][i] = 0
        /\ \A i, j \in I : c[i][j] = 0 => c[j][i] = 0
        /\ \A i, j, k \in I :
              /\ (c[i][j] = 0 /\ c[j][k] = 0) => c[i][k] = 0
              /\ (c[i][j] < 0 /\ c[j][k] < 0) => c[i][k] < 0
              /\ (c[i][j] > 0 /\ c[j][k] > 0) => c[i][k] > 0

\* Every rearrangement of a list.
Rearrangements(list) ==
    LET I == 1..Len(list)
    IN  {[k \in I |-> list[f[k]]] :
            f \in {perm \in [I -> I] : \A i, j \in I : i # j => perm[i] # perm[j]}}

\* The stable sort of a list under a consistent comparator: an element
\* comes after those that compare smaller and after the equal ones that
\* stood before it.
stableSort(list, c) ==
    LET I == 1..Len(list)
        rank(i) == 1 + Cardinality({j \in I \ {i} :
                                       c[j][i] < 0 \/ (c[j][i] = 0 /\ j < i)})
    IN  [k \in I |-> list[CHOOSE i \in I : rank(i) = k]]

\* list.sort(comparefn): the lists it can produce.  With a consistent
\* comparator the sort is stable and has one result; otherwise the order
\* is implementation-defined.
sort(list, c) ==
    IF Consistent(c) THEN {stableSort(list, c)} ELSE Rearrangements(list)

---------------------------------------------------------------------------
(* Dashboard: upcoming sessions *)

\* p.scheduledRecordAt as a condition: set and not the empty string.
truthy(opt) == opt # None /\ opt[1] # <<>>

\* (p.scheduledRecordAt || "")
orEmpty(opt) == IF truthy(opt) THEN opt[1] ELSE <<>>

Min(a, b) == IF a <= b THEN a ELSE b

\* list.slice(0, 5)
slice05(list) == SubSeq(list, 1, Min(5, Len(list)))

\* An upcoming list that cuts to five before it sorts.
next_SliceFirst(projs) ==
    LET elig == slice05(SelectSeq(active(projs), LAMBDA p : truthy(p.scheduledRecordAt)))
        c    == [i \in 1..Len(elig) |-> [j \in 1..Len(elig) |->
                    localeCompare(orEmpty(elig[i].scheduledRecordAt),
                                  orEmpty(elig[j].scheduledRecordAt))]]
    IN  sort(elig, c)

\* const next = projects.filter(..).filter(..).sort(..).slice(0,5): the
\* lists it can be.
next(projs) ==
    LET elig == SelectSeq(active(projs), LAMBDA p : truthy(p.scheduledRecordAt))
        c    == [i \in 1..Len(elig) |-> [j \in 1..Len(elig) |->
                    localeCompare(orEmpty(elig[i].scheduledRecordAt),
                                  orEmpty(elig[j].scheduledRecordAt))]]
    IN  {slice05(sorted) : sorted \in sort(elig, c)}

\* Values of <input type="datetime-local">.
Jan2 == <<"2","0","2","5","-","0","1","-","0","2","T","0","9",":","0","0">>
Jan10 == <<"2","0","2","5","-","0","1","-","1","0","T","0","8",":","3","0">>

\* The saved projects the upcoming list is explored on: scheduled on one
\* of two dates, not scheduled, or archived with a date.
UpcomingCatalogue ==
    {Project(<<>>, <<>>, <<>>, <<"M">>, 1, "active", "medium", 0, 0, Some(Jan2)),
     Project(<<>>, <<>>, <<>>, <<"M">>, 1, "draft", "medium", 0, 0, Some(Jan10)),
     Project(<<>>, <<>>, <<>>, <<"M">>, 1, "active", "medium", 0, 0, Some(<<>>)),
     Project(<<>>, <<>>, <<>>, <<"M">>, 1, "archived", "medium", 0, 0, Some(Jan2))}

UpcomingNext == (Len(projects) < MaxUpcoming /\ SaveFilled(UpcomingCatalogue))

SpecUpcoming == ProjInit /\ [][UpcomingNext]_vars

\* How often the project p occurs in the list.
Count(list, p) == Cardinality({i \in 1..Len(list) : list[i] = p})

\* The positions of the projects that are not archived and have a date.
Eligible(projs) ==
    {i \in 1..Len(projs) :
        /\ projs[i].status # "archived"
        /\ projs[i].scheduledRecordAt \notin {None, Some(<<>>)}}

\* C17: the upcoming list holds only non-archived projects with a date,
\* in ascending order of the date, at most 5 of them, and they are the
\* first 5 of the eligible ones: whatever eligible project is left out is
\* not earlier than any listed one.
C17_UpcomingIsFirstFive ==
    \A nx \in next(projects) :
        /\ Len(nx) = Min(5, Cardinality(Eligible(projects)))
        /\ \A k \in 1..Len(nx) :
              /\ nx[k].status # "archived"
              /\ nx[k].scheduledRecordAt \notin {None, Some(<<>>)}
              /\ Count(nx, nx[k]) <= Count(projects, nx[k])
        /\ \A k, l \in 1..Len(nx) :
              k < l => localeCompare(nx[k].scheduledRecordAt[1],
                                     nx[l].scheduledRecordAt[1]) <= 0
        /\ \A i \in Eligible(projects), k \in 1..Len(nx) :
              Count(nx, projects[i]) < Count(projects, projects[i])
                  => localeCompare(nx[k].scheduledRecordAt[1],
                                   projects[i].scheduledRecordAt[1]) <= 0

\* Six eligible projects, the one at the head on the later date: the list
\* is the five of the earlier date.
C17_Witness ==
    /\ Len(projects) = 6
    /\ Eligible(projects) = 1..6
    /\ projects[1].scheduledRecordAt = Some(Jan10)
    /\ \A i \in 2..6 : projects[i].scheduledRecordAt = Some(Jan2)
    /\ \A nx \in next(projects) :
          Len(nx) = 5 /\ \A k \in 1..5 : nx[k].scheduledRecordAt = Some(Jan2)

---------------------------------------------------------------------------
(* ProjectsPage: the filtered list *)

\* String.prototype.trim: spaces off both ends.
RECURSIVE trimText(_)
trimText(t) ==
    IF t = <<>> THEN <<>>
    ELSE IF t[1] = " " THEN trimText(Tail(t))
    ELSE IF t[Len(t)] = " " THEN trimText(SubSeq(t, 1, Len(t) - 1))
    ELSE t

\* String.prototype.includes
includes(t, q) ==
    \E k \in 0..(Len(t) - Len(q)) : SubSeq(t, k + 1, k + Len(q)) = q

\* Array.prototype.join
RECURSIVE join(_, _)
join(list, sep) ==
    IF list = <<>> THEN <<>>
    ELSE IF Len(list) = 1 THEN list[1]
    ELSE list[1] \o sep \o join(Tail(list), sep)

\* A query criterion that looks for q in the four texts put end to end.
matches_EndToEnd(p, q) ==
    includes(toLowerCaseText(p.title \o p.description \o join(p.tags, <<" ">>) \o p.series), q)

\* The query criterion, q being query.toLowerCase().
matches(p, q) ==
    \/ includes(toLowerCaseText(p.title), q)
    \/ includes(toLowerCaseText(p.description), q)
    \/ includes(toLowerCaseText(join(p.tags, <<" ">>)), q)
    \/ includes(toLowerCaseText(p.series), q)

\* if (statusFilter !== "all") list = list.filter(p => p.status === statusFilter)
filterStatus(list, statusFilter) ==
    IF statusFilter # "all"
    THEN SelectSeq(list, LAMBDA p : p.status = statusFilter) ELSE list

\* A priority filter that filters nothing.
filterPriority_Skip(list, priorityFilter) == list

\* if (priorityFilter !== "all") list = list.filter(p => p.priority === priorityFilter)
filterPriority(list, priorityFilter) ==
    IF priorityFilter # "all"
    THEN SelectSeq(list, LAMBDA p : p.priority = priorityFilter) ELSE list

\* if (query.trim()) { const q = query.toLowerCase(); list = list.filter(..) }
filterQuery(list, query) ==
    IF trimText(query) # <<>>
    THEN SelectSeq(list, LAMBDA p : matches(p, toLowerCaseText(query))) ELSE list

\* An episode comparator that looks at the number only.
compareEpisode_NumberOnly(a, b) == a.episodeNumber - b.episodeNumber

\* The comparator of sortKey "episode".
compareEpisode(a, b) ==
    IF a.series # b.series THEN localeCompare(a.series, b.series)
    ELSE a.episodeNumber - b.episodeNumber

\* The comparator of the sort key.
compare(sortKey, a, b) ==
    CASE sortKey = "updatedAt" -> b.updatedAt - a.updatedAt
      [] sortKey = "progress"  -> b.progressPct - a.progressPct
      [] sortKey = "episode"   -> compareEpisode(a, b)

\* The memo "filtered": the lists it can be.
filtered(projs, c) ==
    LET list == filterQuery(filterPriority(filterStatus(projs, c.statusFilter),
                                           c.priorityFilter), c.query)
        tbl  == [i \in 1..Len(list) |-> [j \in 1..Len(list) |->
                    compare(c.sortKey, list[i], list[j])]]
    IN  sort(list, tbl)

\* The controls of the page: the search box and the three selects.
SetQuery(queries) ==
    \E q \in queries :
        /\ ctl' = [ctl EXCEPT !.query = q]
        /\ UNCHANGED <<store, allocVars, tabVars, projVars, userVars, calcVars, pageVars>>

SetStatusFilter(options) ==
    \E o \in options :
        /\ ctl' = [ctl EXCEPT !.statusFilter = o]
        /\ UNCHANGED <<store, allocVars, tabVars, projVars, userVars, calcVars, pageVars>>

SetPriorityFilter(options) ==
    \E o \in options :
        /\ ctl' = [ctl EXCEPT !.priorityFilter = o]
        /\ UNCHANGED <<store, allocVars, tabVars, projVars, userVars, calcVars, pageVars>>

SetSortKey(options) ==
    \E o \in options :
        /\ ctl' = [ctl EXCEPT !.sortKey = o]
        /\ UNCHANGED <<store, allocVars, tabVars, projVars, userVars, calcVars, pageVars>>

\* Texts used below.
Main == <<"M","a","i","n">>
GuestSeries == <<"G","u","e","s","t"," ","S","e","r","i","e","s">>

\* The two projects of the search smoke test, and one whose only text is
\* its description.
Alpha == Project(<<"A","l","p","h","a">>, <<>>, <<<<"n","e","w","s">>>>, Main, 1,
                 "draft", "high", 25, 1, None)
Beta  == Project(<<"B","e","t","a">>, <<>>, <<<<"t","e","c","h">>>>, Main, 2,
                 "active", "medium", 50, 2, None)
Notes == Project(<<>>, <<"T","e","c","h"," ","n","o","t","e","s">>,
                 <<<<"a">>, <<"b">>>>, GuestSeries, 1, "archived", "high", 0, 3, None)

FilterCatalogue == {Alpha, Beta, Notes}

\* What is typed into the search box: nothing, a space, alpha, TECH, an.
Queries ==
    {<<>>, <<" ">>, <<"a","l","p","h","a">>, <<"T","E","C","H">>, <<"a","n">>}

FilterNext ==
    \/ (Len(projects) < MaxFilter /\ SaveFilled(FilterCatalogue))
    \/ SetQuery(Queries)
    \/ SetStatusFilter({"all", "draft", "active", "archived"})
    \/ SetPriorityFilter({"all", "high", "medium"})
    \/ SetSortKey({"updatedAt", "progress"})

SpecFilter == ProjInit /\ [][FilterNext]_vars

\* The query criterion is active: the search box holds more than spaces.
QueryActive == trimText(ctl.query) # <<>>

\* The project satisfies every criterion that is active.
Passes(p) ==
    /\ ctl.statusFilter = "all" \/ p.status = ctl.statusFilter
    /\ ctl.priorityFilter = "all" \/ p.priority = ctl.priorityFilter
    /\ ~QueryActive \/ matches(p, toLowerCaseText(ctl.query))

\* C18: the filtered list holds exactly the projects that satisfy every
\* active criterion, each as often as the collection holds it; with no
\* criterion active it is the whole collection in some order.
C18_FilterIsConjunctive ==
    \A f \in filtered(projects, ctl) :
        /\ Len(f) = Cardinality({i \in 1..Len(projects) : Passes(projects[i])})
        /\ \A i \in 1..Len(projects) :
              Count(f, projects[i]) =
                  IF Passes(projects[i]) THEN Count(projects, projects[i]) ELSE 0
        /\ (ctl.statusFilter = "all" /\ ctl.priorityFilter = "all" /\ ~QueryActive)
              => Len(f) = Len(projects)

\* Alpha, Beta and Notes under status archived, priority high and query
\* TECH: Alpha fails on status, Beta on status and priority, Notes is shown.
C18_Witness ==
    /\ Len(projects) = 3
    /\ \A p \in FilterCatalogue : Count(projects, p) = 1
    /\ ctl.statusFilter = "archived"
    /\ ctl.priorityFilter = "high"
    /\ ctl.query = <<"T","E","C","H">>
    /\ filtered(projects, ctl) = {<<Notes>>}

\* The text q stands somewhere in t, letter case aside.
OccursIgnoringCase(t, q) ==
    \E k \in 0..(Len(t) - Len(q)) :
        \A i \in 1..Len(q) : lowerChar(t[k + i]) = lowerChar(q[i])

\* The project at position i passes the query criterion.
PassesQuery(i) == Count(filterQuery(projects, ctl.query), projects[i]) > 0

\* C19 as stated: with a query present, a project passes the criterion
\* exactly when the query occurs, letter case aside, in the concatenation
\* of title, description, space-joined tags and series.
C19_Original ==
    QueryActive =>
        \A i \in 1..Len(projects) :
            PassesQuery(i) <=>
                OccursIgnoringCase(projects[i].title \o projects[i].description
                                     \o join(projects[i].tags, <<" ">>)
                                     \o projects[i].series, ctl.query)

\* C19, amended: exactly when the query occurs, letter case aside, in the
\* title, in the description, in the space-joined tags or in the series,
\* each taken on its own.
C19_QueryMatchesSomeField ==
    QueryActive =>
        \A i \in 1..Len(projects) :
            PassesQuery(i) <=>
                \E t \in {projects[i].title, projects[i].description,
                           join(projects[i].tags, <<" ">>), projects[i].series} :
                    OccursIgnoringCase(t, ctl.query)

\* Alpha and Beta under the query alpha: only Alpha is shown.
C19_Witness ==
    /\ Len(projects) = 2
    /\ Count(projects, Alpha) = 1 /\ Count(projects, Beta) = 1
    /\ ctl.query = <<"a","l","p","h","a">>
    /\ filterQuery(projects, ctl.query) = <<Alpha>>

---------------------------------------------------------------------------
(* ProjectsPage: the sort keys *)

\* The series name Cafe with an accented e, typed as one code point and
\* as the letter followed by the combining accent.
CafePrecomposed == <<"C","a","f","U+00E9">>
CafeDecomposed  == <<"C","a","f","e","U+0301">>

\* The saved projects the sort keys are explored on: episodes 1 and 2 of
\* four series.
SortCatalogue ==
    {Project(<<>>, <<>>, <<>>, series, ep, "draft", "medium", 25 * ep, ep, None) :
        series \in {Main, GuestSeries, CafePrecomposed, CafeDecomposed}, ep \in {1, 2}}

SortNext ==
    \/ (Len(projects) < MaxSort /\ SaveFilled(SortCatalogue))
    \/ SetSortKey({"updatedAt", "progress", "episode"})

SpecSort == ProjInit /\ [][SortNext]_vars

\* The list is sorted by episode as stated: it holds the projects that
\* pass the filters, each series in one run, the runs in ascending order
\* of the series name, the episode numbers ascending within a run.
GroupedBySeries(f) ==
    /\ Len(f) = Cardinality({i \in 1..Len(projects) : Passes(projects[i])})
    /\ \A i \in 1..Len(projects) :
          Passes(projects[i]) => Count(f, projects[i]) = Count(projects, projects[i])
    /\ \A i, j, k \in 1..Len(f) :
          (i < j /\ j < k /\ f[i].series = f[k].series) => f[j].series = f[i].series
    /\ \A i, j \in 1..Len(f) :
          (i < j /\ f[i].series # f[j].series)
              => localeCompare(f[i].series, f[j].series) <= 0
    /\ \A i, j \in 1..Len(f) :
          (i < j /\ f[i].series = f[j].series)
              => f[i].episodeNumber <= f[j].episodeNumber

SeriesNamesDistinguished ==
    \A i, j \in 1..Len(projects) :
        projects[i].series # projects[j].series
            => localeCompare(projects[i].series, projects[j].series) # 0

---------------------------------------------------------------------------
(* The view computations on arrays as objects.  A variable holds a        *)
(* reference; the arrays live in a heap, a sequence indexed by reference.  *)
(* filter, slice and [...a] build a new array; sort reorders the array it  *)
(* is called on and returns the same reference.                            *)

\* A new array with the given contents.
newArray(h, contents) == [heap |-> Append(h, contents), ref |-> Len(h) + 1]

\* A copy that hands the same array back.
spread_Alias(h, r) == [heap |-> h, ref |-> r]

\* [...a]
spread(h, r) == newArray(h, h[r])

\* a.sort(comparefn), tbl being the table of the comparator on a: the
\* heaps it can leave.
sortInPlace(h, r, tbl) ==
    {[heap |-> [h EXCEPT ![r] = s], ref |-> r] : s \in sort(h[r], tbl)}

\* The memo "filtered" computed on the array at r: the heaps it can leave
\* and the reference it returns.
filteredOn(h, r, c) ==
    LET a0 == spread(h, r)
        a1 == IF c.statusFilter # "all"
              THEN newArray(a0.heap, filterStatus(a0.heap[a0.ref], c.statusFilter))
              ELSE a0
        a2 == IF c.priorityFilter # "all"
              THEN newArray(a1.heap, filterPriority(a1.heap[a1.ref], c.priorityFilter))
              ELSE a1
        a3 == IF trimText(c.query) # <<>>
              THEN newArray(a2.heap, filterQuery(a2.heap[a2.ref], c.query))
              ELSE a2
        list == a3.heap[a3.ref]
        tbl  == [i \in 1..Len(list) |-> [j \in 1..Len(list) |->
                    compare(c.sortKey, list[i], list[j])]]
    IN  sortInPlace(a3.heap, a3.ref, tbl)

\* The body of Dashboard computed on the array at r: active, completed,
\* avgProgress (a number, no array) and next, whose reference it returns.
dashboardOn(h, r) ==
    LET act  == newArray(h, active(h[r]))
        comp == newArray(act.heap, completed(act.heap[r]))
        n1   == newArray(comp.heap, active(comp.heap[r]))
        n2   == newArray(n1.heap, SelectSeq(n1.heap[n1.ref],
                                            LAMBDA p : truthy(p.scheduledRecordAt)))
        elig == n2.heap[n2.ref]
        tbl  == [i \in 1..Len(elig) |-> [j \in 1..Len(elig) |->
                    localeCompare(orEmpty(elig[i].scheduledRecordAt),
                                  orEmpty(elig[j].scheduledRecordAt))]]
    IN  {newArray(s.heap, slice05(s.heap[s.ref])) : s \in sortInPlace(n2.heap, n2.ref, tbl)}

\* A page rendered on the collection projs, held in the array at
\* reference 1: what the collection is afterwards and the list shown.
render(tab, projs, c) ==
    {[source |-> r.heap[1], shown |-> r.heap[r.ref]] :
        r \in IF tab = "projects" THEN filteredOn(<<projs>>, 1, c)
                                  ELSE dashboardOn(<<projs>>, 1)}

\* The saved projects the views are explored on: they differ in every key
\* a view sorts or filters by.
ViewCatalogue ==
    {Project(<<"A">>, <<>>, <<>>, Main, 2, "active", "high", 25, 1, Some(Jan10)),
     Project(<<"B">>, <<>>, <<>>, GuestSeries, 1, "draft", "medium", 100, 0, Some(Jan2)),
     Project(<<"C">>, <<>>, <<>>, Main, 1, "archived", "low", 0, 2, None)}

\* Shell, a navigation button: setTab, and the page of the tab renders.
\* The collection object is the same, so no persistence effect runs.
ShowTab ==
    \E tab \in {"dashboard", "projects"} : \E r \in render(tab, projects, ctl) :
        /\ tab # view.tab
        /\ projects' = r.source
        /\ view' = [tab |-> tab, given |-> projects, shown |-> r.shown]
        /\ UNCHANGED <<store, draft, nextId, clock, born, allocVars, tabVars, userVars,
                       calcVars, viewVars, guestVars, prompt>>

\* A control of the project page is changed and the page renders again.
ViewSetControl ==
    \E q \in {<<>>, <<"a">>}, sf \in {"all", "active", "draft"}, pf \in {"all", "high"},
       sk \in {"updatedAt", "progress", "episode"} :
      LET c == [query |-> q, statusFilter |-> sf, priorityFilter |-> pf, sortKey |-> sk] IN
      \E r \in render("projects", projects, c) :
        /\ view.tab = "projects"
        /\ Cardinality({k \in DOMAIN c : c[k] # ctl[k]}) = 1
        /\ ctl' = c
        /\ projects' = r.source
        /\ view' = [tab |-> "projects", given |-> projects, shown |-> r.shown]
        /\ UNCHANGED <<store, draft, nextId, clock, born, allocVars, tabVars, userVars,
                       calcVars, guestVars, prompt>>

\* A filled-in draft is saved on the project page: saveDraft puts it at the
\* head of the collection, the page renders, the effect saves the
\* collection.
ViewSave ==
    \E p \in ViewCatalogue : \E r \in render("projects", <<p>> \o projects, ctl) :
        /\ view.tab = "projects"
        /\ projects' = r.source
        /\ view' = [tab |-> "projects", given |-> <<p>> \o projects, shown |-> r.shown]
        /\ store' = renderProjects(store, projects')
        /\ UNCHANGED <<draft, nextId, clock, born, allocVars, tabVars, userVars,
                       calcVars, viewVars, guestVars, prompt>>

ViewsNext ==
    \/ ShowTab
    \/ ViewSetControl
    \/ (Len(projects) < MaxViews /\ ViewSave)

SpecViews == ProjInit /\ [][ViewsNext]_vars

\* C21: no view computation changes its source.  After the project page
\* has computed its filtered and sorted list, under any controls, and
\* after the dashboard has computed its counts and its upcoming sessions,
\* the in-memory project collection holds the same projects in the same
\* order as when the page was handed it.
C21_ViewsLeaveSourceAlone == projects = view.given

\* The project page lists the three projects by progress, in an order that
\* is not the order of the collection.
C21_Witness ==
    /\ view.tab = "projects"
    /\ ctl.sortKey = "progress"
    /\ Len(projects) = 3
    /\ Len(view.shown) = 3
    /\ view.shown # projects
    /\ view.shown[1].progressPct = 100 /\ view.shown[3].progressPct = 0

---------------------------------------------------------------------------
(* The progress calculator applied to every checklist. *)

CalcInit ==
    /\ store = EmptyStore
    /\ AllocIdle
    /\ TabsIdle
    /\ ProjIdle
    /\ UsersIdle
    /\ ViewIdle
    /\ PageIdle
    /\ cIn \in Checklist
    /\ cOf = None
    /\ cOut = 0

\* The user ticks or unticks one item.
CalcToggle ==
    \E k \in ChecklistKeys :
        /\ cIn' = [cIn EXCEPT ![k] = ~@]
        /\ UNCHANGED <<store, allocVars, tabVars, projVars, userVars, cOf, cOut, viewVars, pageVars>>

\* calcProgress is applied to the checklist.
CalcApply ==
    /\ cOf' = Some(cIn)
    /\ cOut' = calcProgress(cIn)
    /\ UNCHANGED <<store, allocVars, tabVars, projVars, userVars, cIn, viewVars, pageVars>>

CalcNext == CalcToggle \/ CalcApply

SpecCalc == CalcInit /\ [][CalcNext]_vars

\* C6: for each of the 16 checklists calcProgress returns 25 times the
\* number of true fields, a value in {0, 25, 50, 75, 100}.
C6_ProgressIsQuarterSteps ==
    cOf # None =>
        /\ cOut = 25 * TrueCount(cOf[1])
        /\ cOut \in {0, 25, 50, 75, 100}

C6_Witness ==
    /\ cOf # None
    /\ TrueCount(cOf[1]) = 3
    /\ cOut = 75


---------------------------------------------------------------------------
(* Two tabs, each running the portal on the one store.  A tab's            *)
(* collections are React state filled by load() when the page loads; the   *)
(* effects write them back whole.  Nothing listens to the store.           *)

PortalUnchanged ==
    UNCHANGED <<tpc, tmap, tser, tret, allocVars, projects, draft, born,
                users, session, phase, lastLogin, calcVars, viewVars,
                view, guests, g, prompt>>

PortalUser(t) == IF mem[t].up THEN currentUser(mem[t].users, mem[t].session) ELSE None

PortalNoForm(t) == mem[t].draft = None /\ mem[t].g = None

\* The page loads in tab t (first visit, window.location.reload(), or the
\* user reloading): ensureSeedAdmin, the useState initialisers, getSession,
\* then the effects of the first render.
PortalMount(t) ==
    LET seeds == Len(load(store, "users", <<>>)) = 0
        s1    == ensureSeedAdmin(store, nextUid, TRUE)
        us    == load(s1, "users", <<>>)
        ps    == load(s1, "projects", <<>>)
        gs    == load(s1, "guests", <<>>)
    IN  /\ mem' = [mem EXCEPT ![t] = [up |-> TRUE, users |-> us, projects |-> ps,
                                      guests |-> gs, session |-> getSession(s1),
                                      draft |-> None, g |-> None]]
        /\ store' = mount(s1, us, ps, gs, TRUE)
        /\ nextUid' = IF seeds THEN nextUid + 1 ELSE nextUid
        /\ UNCHANGED <<nextId, nextGid, clock>>
        /\ PortalUnchanged

\* AuthScreen of tab t, "Enter Portal" with the seeded admin's email
PortalLogin(t) ==
    LET r == handleLogin(mem[t].users, SeedEmail, nextUid) IN
    /\ mem[t].up
    /\ PortalUser(t) = None
    /\ ~r.alerted
    /\ store' = mirrorUsers(setSession(store, r.userId, TRUE).store,
                            mem[t].users, r.users, TRUE)
    /\ nextUid' = IF r.users = mem[t].users THEN nextUid ELSE nextUid + 1
    /\ mem' = [mem EXCEPT ![t] = Unmounted]
    /\ UNCHANGED <<nextId, nextGid, clock>>
    /\ PortalUnchanged

\* TeamPage of tab t, "Add"
PortalTeamAdd(t) ==
    LET us == add(mem[t].users, "Pat", "x@s.co", nextUid) IN
    /\ PortalUser(t) # None
    /\ PortalNoForm(t)
    /\ mem' = [mem EXCEPT ![t].users = us]
    /\ store' = mirrorUsers(store, mem[t].users, us, TRUE)
    /\ nextUid' = IF us = mem[t].users THEN nextUid ELSE nextUid + 1
    /\ UNCHANGED <<nextId, nextGid, clock>>
    /\ PortalUnchanged

\* ProjectsPage of tab t, "New Project"
PortalOpenNew(t) ==
    LET r == openNew(store, mem[t].projects, nextId, clock, TRUE) IN
    /\ PortalUser(t) # None
    /\ PortalNoForm(t)
    /\ store' = r.store
    /\ mem' = [mem EXCEPT ![t].draft = r.draft]
    /\ nextId' = nextId + 1
    /\ UNCHANGED <<nextUid, nextGid, clock>>
    /\ PortalUnchanged

\* ProjectsPage of tab t, "Save" in the form
PortalSaveDraft(t) ==
    /\ PortalUser(t) # None
    /\ mem[t].draft # None
    /\ LET ps == saveDraft(mem[t].projects, mem[t].draft[1], clock) IN
        /\ mem' = [mem EXCEPT ![t].projects = ps, ![t].draft = None]
        /\ store' = renderProjects(store, ps)
    /\ UNCHANGED <<nextId, nextUid, nextGid, clock>>
    /\ PortalUnchanged

\* GuestsPage of tab t, "Add Guest"
PortalGuestOpenNew(t) ==
    /\ PortalUser(t) # None
    /\ PortalNoForm(t)
    /\ mem' = [mem EXCEPT ![t].g = GuestsPage_open(None, nextGid, clock)]
    /\ nextGid' = nextGid + 1
    /\ UNCHANGED <<store, nextId, nextUid, clock>>
    /\ PortalUnchanged

\* GuestsPage of tab t, typing the name
PortalGuestSetName(t) ==
    /\ PortalUser(t) # None
    /\ mem[t].g # None
    /\ mem' = [mem EXCEPT ![t].g = setName(mem[t].g[1], "Ann")]
    /\ UNCHANGED <<store, nextId, nextUid, nextGid, clock>>
    /\ PortalUnchanged

\* GuestsPage of tab t, "Save" in the form
PortalGuestSave(t) ==
    /\ PortalUser(t) # None
    /\ mem[t].g # None
    /\ LET r == GuestsPage_save(mem[t].guests, mem[t].g[1]) IN
        /\ mem' = [mem EXCEPT ![t].guests = r.guests,
                              ![t].g = IF r.alerted THEN mem[t].g ELSE None]
        /\ store' = IF r.alerted THEN store ELSE renderGuests(store, r.guests)
    /\ UNCHANGED <<nextId, nextUid, nextGid, clock>>
    /\ PortalUnchanged

\* what tab t can do
PortalStep(t) ==
    \/ PortalMount(t)
    \/ PortalLogin(t)
    \/ (nextUid <= MaxPortalUids /\ PortalTeamAdd(t))
    \/ (nextId <= MaxPortalIds /\ PortalOpenNew(t))
    \/ PortalSaveDraft(t)
    \/ (nextGid <= MaxPortalGids /\ PortalGuestOpenNew(t))
    \/ PortalGuestSetName(t)
    \/ PortalGuestSave(t)

PortalsNext == \E t \in Tabs : PortalStep(t)

SpecPortals == TabsInit /\ [][PortalsNext]_vars

\* the identifiers of the records of a stored collection
StoredIds(st, key) ==
    LET coll == load(st, key, <<>>) IN {coll[i].id : i \in 1..Len(coll)}

\* C29: a tab's collections are filled from the store only when its page
\* loads and are written back whole, so with two tabs the last writer wins:
\* a save in tab t leaves under the key exactly tab t's collection, whatever
\* another tab had stored there (a stored record tab t never loaded is
\* erased), and no step of one tab changes what another tab holds in
\* memory.
C29_LastWriterWins ==
    [][ \A t \in Tabs :
          /\ PortalSaveDraft(t) =>
                /\ store'["projects"] = Some(mem'[t].projects)
                /\ \A id \in StoredIds(store, "projects") :
                      (id # mem[t].draft[1].id
                          /\ \A i \in 1..Len(mem[t].projects) : mem[t].projects[i].id # id)
                      => id \notin StoredIds(store', "projects")
          /\ (PortalTeamAdd(t) /\ mem'[t].users # mem[t].users) =>
                store'["users"] = Some(mem'[t].users)
          /\ (PortalGuestSave(t) /\ mem'[t].guests # mem[t].guests) =>
                store'["guests"] = Some(mem'[t].guests)
          /\ PortalStep(t) => \A u \in Tabs \ {t} : mem'[u] = mem[u]
          /\ (mem[t].up /\ ~PortalMount(t) /\ ~PortalLogin(t)) =>
                /\ mem'[t].projects # mem[t].projects => PortalSaveDraft(t)
                /\ mem'[t].users # mem[t].users => PortalTeamAdd(t)
                /\ mem'[t].guests # mem[t].guests => PortalGuestSave(t)
      ]_vars

\* tab A saved project 1 after tab B had loaded; tab B then saved project
\* 2, and the store holds tab B's collection: project 1 is still on tab A's
\* page and gone from the store
C29_Witness ==
    /\ mem["A"].up /\ mem["B"].up
    /\ Len(mem["A"].projects) = 1 /\ mem["A"].projects[1].id = 1
    /\ Len(mem["B"].projects) = 1 /\ mem["B"].projects[1].id = 2
    /\ store["projects"] = Some(mem["B"].projects)
    /\ mem["A"].draft = None /\ mem["B"].draft = None

============================================================================
